---- MODULE Spec2Model ----
(***************************************************************************)
(* Incident response bot: the incident store (IncidentManager), its audit  *)
(* timeline, and the webhook route that creates incidents from alerts;     *)
(* the on-call table, the aggregate and daily metrics computed from the    *)
(* store, and the gauge values the metrics collector sets from them; the   *)
(* Slack command and button handlers, run as steps between their awaits.   *)
(*                                                                         *)
(* Time is the millisecond wall clock read by Date.now() / new Date().     *)
(* Every read of a handler is a separate read: the clock may advance       *)
(* between two reads of one handler, and never goes backwards.             *)
(* Math.random() is an input: any token of Randoms (incident ids) or of    *)
(* EventRandoms (event ids) may come out.                                  *)
(***************************************************************************)
EXTENDS Integers, Sequences, FiniteSets, TLC

\* ------------------------------------------------------------------ bounds
MaxClock == 1
MaxEvents == 3
MaxCreates == 3

\* ------------------------------------------------------------ value spaces
Undefined == "undefined"
NoDate == -1

Severities == {"P0", "P1", "P2", "P3"}
Statuses == {"open", "investigating", "resolved", "closed"}
Sources == {"manual", "webhook", "monitoring"}
\* the users the calls are made with: assignIncident's assignee,
\* updateIncidentStatus's optional actor, addIncidentComment's author
Assignees == {"U2"}
Actors == {Undefined, "U1"}
Commenters == {"U2"}
Messages == {"looking into it"}
\* Math.random() tokens: the suffix of an incident id, of an event id
Randoms == {"A", "B"}
EventRandoms == {"A"}
NoMeta == [kind |-> Undefined]

\* CreateIncidentRequest values handed to createIncident by its callers.
\* The empty title is what '/incident create "" P0' makes of its arguments
\* (the quotes are stripped from the joined title words).
Requests ==
  { [title |-> "DB down", description |-> Undefined, severity |-> "P1",
     assignee |-> Undefined, source |-> Undefined,
     tags |-> <<"database">>,
     metadata |-> NoMeta],
    [title |-> "", description |-> Undefined, severity |-> "P0",
     assignee |-> "U1", source |-> "manual", tags |-> Undefined,
     metadata |-> NoMeta] }

VARIABLES incidents, clock, last, hist, createdLog, onCallSchedules,
          inFlight, collector, resolveLog, started

vars ==
  <<incidents, clock, last, hist, createdLog, onCallSchedules, inFlight,
    collector, resolveLog, started>>

\* ------------------------------------------------- Map<string, Incident>
\* A JavaScript Map keeps insertion order; set() on a present key replaces
\* the value in place, on an absent key appends.
MapHas(m, k) == \E i \in 1..Len(m) : m[i].id = k

MapIndex(m, k) == CHOOSE i \in 1..Len(m) : m[i].id = k

MapGet(m, k) == m[MapIndex(m, k)]

MapSet(m, k, v) ==
  IF MapHas(m, k) THEN [m EXCEPT ![MapIndex(m, k)] = v] ELSE Append(m, v)

\* --------------------------------------------------- JavaScript truthiness
\* undefined and the empty string are falsy; a || b is b when a is falsy
Truthy(a) == a # Undefined /\ a # ""

OrElse(a, b) == IF Truthy(a) THEN a ELSE b

\* ------------------------------------------------------------ identifiers
generateIncidentId(timestamp, random) == <<"INC", timestamp, random>>

generateEventId(timestamp, random) == <<"EVT", timestamp, random>>

\* ------------------------------------------------------------- operations
\* createIncident with updatedAt taken from a clock read of its own
createIncident_updatedAtReread(store, request, tId, rId, now, tEv, rEv) ==
  LET id == generateIncidentId(tId, rId)
      creationEvent ==
        [id |-> generateEventId(tEv, rEv), incidentId |-> id,
         type |-> "created",
         message |-> <<"Incident created: ", request.title>>,
         userId |-> Undefined, timestamp |-> now,
         metadata |-> [severity |-> request.severity]]
      incident ==
        [id |-> id, title |-> request.title,
         description |-> request.description,
         severity |-> request.severity, status |-> "open",
         assignee |-> request.assignee, channelId |-> Undefined,
         createdAt |-> now, updatedAt |-> tEv,
         resolvedAt |-> NoDate, closedAt |-> NoDate,
         source |-> OrElse(request.source, "manual"),
         timeline |-> <<creationEvent>>,
         tags |-> IF request.tags = Undefined THEN <<>> ELSE request.tags,
         metadata |-> request.metadata]
  IN [incidents |-> MapSet(store, id, incident), ret |-> <<incident>>]

\* createIncident: tId is the Date.now() of generateIncidentId, now the
\* new Date() of line 86, tEv the Date.now() of generateEventId.
createIncident(store, request, tId, rId, now, tEv, rEv) ==
  LET id == generateIncidentId(tId, rId)
      creationEvent ==
        [id |-> generateEventId(tEv, rEv), incidentId |-> id,
         type |-> "created",
         message |-> <<"Incident created: ", request.title>>,
         userId |-> Undefined, timestamp |-> now,
         metadata |-> [severity |-> request.severity]]
      incident ==
        [id |-> id, title |-> request.title,
         description |-> request.description,
         severity |-> request.severity, status |-> "open",
         assignee |-> request.assignee, channelId |-> Undefined,
         createdAt |-> now, updatedAt |-> now,
         resolvedAt |-> NoDate, closedAt |-> NoDate,
         source |-> OrElse(request.source, "manual"),
         timeline |-> <<creationEvent>>,
         tags |-> IF request.tags = Undefined THEN <<>> ELSE request.tags,
         metadata |-> request.metadata]
  IN [incidents |-> MapSet(store, id, incident), ret |-> <<incident>>]

getIncident(store, id) ==
  IF MapHas(store, id) THEN <<MapGet(store, id)>> ELSE <<>>

\* assignIncident answering success for an id the store does not hold
assignIncident_okOnMissing(store, incidentId, assignee, tUpd, tEv, rEv, tStamp) ==
  IF ~MapHas(store, incidentId) THEN [incidents |-> store, ret |-> TRUE]
  ELSE
    LET incident == MapGet(store, incidentId)
        oldAssignee == incident.assignee
        event ==
          [id |-> generateEventId(tEv, rEv), incidentId |-> incidentId,
           type |-> "assigned",
           message |-> IF Truthy(oldAssignee)
                       THEN <<"Incident reassigned from ", oldAssignee,
                              " to ", assignee>>
                       ELSE <<"Incident assigned to ", assignee>>,
           userId |-> Undefined, timestamp |-> tStamp,
           metadata |-> [oldAssignee |-> oldAssignee,
                         newAssignee |-> assignee]]
        updated ==
          [incident EXCEPT !.assignee = assignee, !.updatedAt = tUpd,
                           !.timeline = Append(@, event)]
    IN [incidents |-> [store EXCEPT ![MapIndex(store, incidentId)] = updated],
        ret |-> TRUE]

\* assignIncident moving the incident to 'investigating' as it assigns
assignIncident_startsInvestigating(store, incidentId, assignee, tUpd, tEv, rEv, tStamp) ==
  IF ~MapHas(store, incidentId) THEN [incidents |-> store, ret |-> FALSE]
  ELSE
    LET incident == MapGet(store, incidentId)
        oldAssignee == incident.assignee
        event ==
          [id |-> generateEventId(tEv, rEv), incidentId |-> incidentId,
           type |-> "assigned",
           message |-> IF Truthy(oldAssignee)
                       THEN <<"Incident reassigned from ", oldAssignee,
                              " to ", assignee>>
                       ELSE <<"Incident assigned to ", assignee>>,
           userId |-> Undefined, timestamp |-> tStamp,
           metadata |-> [oldAssignee |-> oldAssignee,
                         newAssignee |-> assignee]]
        updated ==
          [incident EXCEPT !.assignee = assignee, !.updatedAt = tUpd,
                           !.status = "investigating",
                           !.timeline = Append(@, event)]
    IN [incidents |-> [store EXCEPT ![MapIndex(store, incidentId)] = updated],
        ret |-> TRUE]

\* assignIncident stamping updatedAt with the moment of creation
assignIncident_updatedAtEpoch(store, incidentId, assignee, tUpd, tEv, rEv, tStamp) ==
  IF ~MapHas(store, incidentId) THEN [incidents |-> store, ret |-> FALSE]
  ELSE
    LET incident == MapGet(store, incidentId)
        oldAssignee == incident.assignee
        event ==
          [id |-> generateEventId(tEv, rEv), incidentId |-> incidentId,
           type |-> "assigned",
           message |-> IF Truthy(oldAssignee)
                       THEN <<"Incident reassigned from ", oldAssignee,
                              " to ", assignee>>
                       ELSE <<"Incident assigned to ", assignee>>,
           userId |-> Undefined, timestamp |-> tStamp,
           metadata |-> [oldAssignee |-> oldAssignee,
                         newAssignee |-> assignee]]
        updated ==
          [incident EXCEPT !.assignee = assignee,
                           !.updatedAt = incident.createdAt,
                           !.timeline = Append(@, event)]
    IN [incidents |-> [store EXCEPT ![MapIndex(store, incidentId)] = updated],
        ret |-> TRUE]

assignIncident(store, incidentId, assignee, tUpd, tEv, rEv, tStamp) ==
  IF ~MapHas(store, incidentId) THEN [incidents |-> store, ret |-> FALSE]
  ELSE
    LET incident == MapGet(store, incidentId)
        oldAssignee == incident.assignee
        event ==
          [id |-> generateEventId(tEv, rEv), incidentId |-> incidentId,
           type |-> "assigned",
           message |-> IF Truthy(oldAssignee)
                       THEN <<"Incident reassigned from ", oldAssignee,
                              " to ", assignee>>
                       ELSE <<"Incident assigned to ", assignee>>,
           userId |-> Undefined, timestamp |-> tStamp,
           metadata |-> [oldAssignee |-> oldAssignee,
                         newAssignee |-> assignee]]
        updated ==
          [incident EXCEPT !.assignee = assignee, !.updatedAt = tUpd,
                           !.timeline = Append(@, event)]
    IN [incidents |-> [store EXCEPT ![MapIndex(store, incidentId)] = updated],
        ret |-> TRUE]

\* updateIncidentStatus putting its event at the head of the timeline
\* (unshift for push)
updateIncidentStatus_unshift(store, incidentId, status, userId, tUpd, tSet, tEv, rEv, tStamp) ==
  IF ~MapHas(store, incidentId) THEN [incidents |-> store, ret |-> FALSE]
  ELSE
    LET incident == MapGet(store, incidentId)
        oldStatus == incident.status
        event ==
          [id |-> generateEventId(tEv, rEv), incidentId |-> incidentId,
           type |-> "status_changed",
           message |-> <<"Status changed from ", oldStatus, " to ", status>>,
           userId |-> userId, timestamp |-> tStamp,
           metadata |-> [oldStatus |-> oldStatus, newStatus |-> status]]
        updated ==
          [incident EXCEPT
             !.status = status,
             !.updatedAt = tUpd,
             !.resolvedAt = IF status = "resolved" THEN tSet ELSE @,
             !.closedAt = IF status = "closed" THEN tSet ELSE @,
             !.timeline = <<event>> \o @]
    IN [incidents |-> [store EXCEPT ![MapIndex(store, incidentId)] = updated],
        ret |-> TRUE]

\* updateIncidentStatus dropping resolvedAt / closedAt when the incident
\* leaves 'resolved' / 'closed'
updateIncidentStatus_clearOnLeave(store, incidentId, status, userId, tUpd, tSet, tEv, rEv, tStamp) ==
  IF ~MapHas(store, incidentId) THEN [incidents |-> store, ret |-> FALSE]
  ELSE
    LET incident == MapGet(store, incidentId)
        oldStatus == incident.status
        event ==
          [id |-> generateEventId(tEv, rEv), incidentId |-> incidentId,
           type |-> "status_changed",
           message |-> <<"Status changed from ", oldStatus, " to ", status>>,
           userId |-> userId, timestamp |-> tStamp,
           metadata |-> [oldStatus |-> oldStatus, newStatus |-> status]]
        updated ==
          [incident EXCEPT
             !.status = status,
             !.updatedAt = tUpd,
             !.resolvedAt = IF status = "resolved" THEN tSet ELSE NoDate,
             !.closedAt = IF status = "closed" THEN tSet ELSE NoDate,
             !.timeline = Append(@, event)]
    IN [incidents |-> [store EXCEPT ![MapIndex(store, incidentId)] = updated],
        ret |-> TRUE]

\* updateIncidentStatus treating 'closed' as final: the call on a closed
\* incident returns true and changes nothing
updateIncidentStatus_closedIsFinal(store, incidentId, status, userId, tUpd, tSet, tEv, rEv, tStamp) ==
  IF ~MapHas(store, incidentId) THEN [incidents |-> store, ret |-> FALSE]
  ELSE IF MapGet(store, incidentId).status = "closed"
  THEN [incidents |-> store, ret |-> TRUE]
  ELSE
    LET incident == MapGet(store, incidentId)
        oldStatus == incident.status
        event ==
          [id |-> generateEventId(tEv, rEv), incidentId |-> incidentId,
           type |-> "status_changed",
           message |-> <<"Status changed from ", oldStatus, " to ", status>>,
           userId |-> userId, timestamp |-> tStamp,
           metadata |-> [oldStatus |-> oldStatus, newStatus |-> status]]
        updated ==
          [incident EXCEPT
             !.status = status,
             !.updatedAt = tUpd,
             !.resolvedAt = IF status = "resolved" THEN tSet ELSE @,
             !.closedAt = IF status = "closed" THEN tSet ELSE @,
             !.timeline = Append(@, event)]
    IN [incidents |-> [store EXCEPT ![MapIndex(store, incidentId)] = updated],
        ret |-> TRUE]

\* updateIncidentStatus setting the status and returning, the rest of the
\* update left for later
updateIncidentStatus_statusFirst(store, incidentId, status, userId, tUpd, tSet, tEv, rEv, tStamp) ==
  IF ~MapHas(store, incidentId) THEN [incidents |-> store, ret |-> FALSE]
  ELSE
    LET incident == MapGet(store, incidentId)
        updated == [incident EXCEPT !.status = status]
    IN [incidents |-> [store EXCEPT ![MapIndex(store, incidentId)] = updated],
        ret |-> TRUE]

\* updateIncidentStatus reading oldStatus after it assigned the new status
updateIncidentStatus_oldStatusLate(store, incidentId, status, userId, tUpd, tSet, tEv, rEv, tStamp) ==
  IF ~MapHas(store, incidentId) THEN [incidents |-> store, ret |-> FALSE]
  ELSE
    LET incident == MapGet(store, incidentId)
        oldStatus == status
        event ==
          [id |-> generateEventId(tEv, rEv), incidentId |-> incidentId,
           type |-> "status_changed",
           message |-> <<"Status changed from ", oldStatus, " to ", status>>,
           userId |-> userId, timestamp |-> tStamp,
           metadata |-> [oldStatus |-> oldStatus, newStatus |-> status]]
        updated ==
          [incident EXCEPT
             !.status = status,
             !.updatedAt = tUpd,
             !.resolvedAt = IF status = "resolved" THEN tSet ELSE @,
             !.closedAt = IF status = "closed" THEN tSet ELSE @,
             !.timeline = Append(@, event)]
    IN [incidents |-> [store EXCEPT ![MapIndex(store, incidentId)] = updated],
        ret |-> TRUE]

\* updateIncidentStatus building its event before it sets resolvedAt /
\* closedAt
updateIncidentStatus_stampBeforeSet(store, incidentId, status, userId, tUpd, tSet, tEv, rEv, tStamp) ==
  IF ~MapHas(store, incidentId) THEN [incidents |-> store, ret |-> FALSE]
  ELSE
    LET incident == MapGet(store, incidentId)
        oldStatus == incident.status
        event ==
          [id |-> generateEventId(tEv, rEv), incidentId |-> incidentId,
           type |-> "status_changed",
           message |-> <<"Status changed from ", oldStatus, " to ", status>>,
           userId |-> userId, timestamp |-> tSet,
           metadata |-> [oldStatus |-> oldStatus, newStatus |-> status]]
        updated ==
          [incident EXCEPT
             !.status = status,
             !.updatedAt = tUpd,
             !.resolvedAt = IF status = "resolved" THEN tStamp ELSE @,
             !.closedAt = IF status = "closed" THEN tStamp ELSE @,
             !.timeline = Append(@, event)]
    IN [incidents |-> [store EXCEPT ![MapIndex(store, incidentId)] = updated],
        ret |-> TRUE]

updateIncidentStatus(store, incidentId, status, userId, tUpd, tSet, tEv, rEv, tStamp) ==
  IF ~MapHas(store, incidentId) THEN [incidents |-> store, ret |-> FALSE]
  ELSE
    LET incident == MapGet(store, incidentId)
        oldStatus == incident.status
        event ==
          [id |-> generateEventId(tEv, rEv), incidentId |-> incidentId,
           type |-> "status_changed",
           message |-> <<"Status changed from ", oldStatus, " to ", status>>,
           userId |-> userId, timestamp |-> tStamp,
           metadata |-> [oldStatus |-> oldStatus, newStatus |-> status]]
        updated ==
          [incident EXCEPT
             !.status = status,
             !.updatedAt = tUpd,
             !.resolvedAt = IF status = "resolved" THEN tSet ELSE @,
             !.closedAt = IF status = "closed" THEN tSet ELSE @,
             !.timeline = Append(@, event)]
    IN [incidents |-> [store EXCEPT ![MapIndex(store, incidentId)] = updated],
        ret |-> TRUE]

\* addIncidentComment bumping updatedAt without appending its event
addIncidentComment_noEvent(store, incidentId, message, userId, tEv, rEv, tStamp, tUpd) ==
  IF ~MapHas(store, incidentId) THEN [incidents |-> store, ret |-> FALSE]
  ELSE
    LET incident == MapGet(store, incidentId)
        updated == [incident EXCEPT !.updatedAt = tUpd]
    IN [incidents |-> [store EXCEPT ![MapIndex(store, incidentId)] = updated],
        ret |-> TRUE]

addIncidentComment(store, incidentId, message, userId, tEv, rEv, tStamp, tUpd) ==
  IF ~MapHas(store, incidentId) THEN [incidents |-> store, ret |-> FALSE]
  ELSE
    LET incident == MapGet(store, incidentId)
        event ==
          [id |-> generateEventId(tEv, rEv), incidentId |-> incidentId,
           type |-> "comment", message |-> message, userId |-> userId,
           timestamp |-> tStamp, metadata |-> NoMeta]
        updated ==
          [incident EXCEPT !.timeline = Append(@, event), !.updatedAt = tUpd]
    IN [incidents |-> [store EXCEPT ![MapIndex(store, incidentId)] = updated],
        ret |-> TRUE]

\* ------------------------------------------------------- webhook adapter
\* String.prototype.toLowerCase on the severity tokens that alerts carry
toLowerCase(token) ==
  CASE token = "HIGH" -> "high"
    [] token = "Critical" -> "critical"
    [] token = "P1" -> "p1"
    [] token = "CRITICAL" -> "critical"
    [] token = "P0" -> "p0"
    [] token = "SEV0" -> "sev0"
    [] token = "Sev0" -> "sev0"
    [] token = "High" -> "high"
    [] token = "SEV1" -> "sev1"
    [] token = "Sev1" -> "sev1"
    [] token = "MEDIUM" -> "medium"
    [] token = "Medium" -> "medium"
    [] token = "P2" -> "p2"
    [] token = "SEV2" -> "sev2"
    [] token = "LOW" -> "low"
    [] token = "Low" -> "low"
    [] token = "P3" -> "p3"
    [] token = "SEV3" -> "sev3"
    [] token = "WARNING" -> "warning"
    [] token = "Info" -> "info"
    [] OTHER -> token

\* mapAlertSeverity testing the P1 list before the P0 list
mapAlertSeverity_p1First(alertSeverity) ==
  LET severity == toLowerCase(OrElse(alertSeverity, ""))
  IN IF severity \in {"high", "p1", "sev1", "medium"} THEN "P1"
     ELSE IF severity \in {"critical", "p0", "sev0", "high"} THEN "P0"
     ELSE IF severity \in {"medium", "p2", "sev2", "low"} THEN "P2"
     ELSE "P3"

mapAlertSeverity(alertSeverity) ==
  LET severity == toLowerCase(OrElse(alertSeverity, ""))
  IN IF severity \in {"critical", "p0", "sev0", "high"} THEN "P0"
     ELSE IF severity \in {"high", "p1", "sev1", "medium"} THEN "P1"
     ELSE IF severity \in {"medium", "p2", "sev2", "low"} THEN "P2"
     ELSE "P3"

\* Alert payloads posted to /webhook/alert
Alerts ==
  { [severity |-> "HIGH", priority |-> Undefined, summary |-> "disk full",
     title |-> Undefined, description |-> Undefined, message |-> "92%"],
    [severity |-> Undefined, priority |-> "bogus", summary |-> "",
     title |-> Undefined, description |-> Undefined, message |-> Undefined] }

\* handleIncomingAlert leaving the source of its request out
alertRequest_noSource(alert) ==
  [title |-> OrElse(alert.summary, OrElse(alert.title, "Unknown Alert")),
   description |-> OrElse(alert.description, OrElse(alert.message, "")),
   severity |-> mapAlertSeverity(OrElse(alert.severity, alert.priority)),
   assignee |-> Undefined, source |-> Undefined, tags |-> Undefined,
   metadata |-> alert]

\* The request handleIncomingAlert builds from an alert
alertRequest(alert) ==
  [title |-> OrElse(alert.summary, OrElse(alert.title, "Unknown Alert")),
   description |-> OrElse(alert.description, OrElse(alert.message, "")),
   severity |-> mapAlertSeverity(OrElse(alert.severity, alert.priority)),
   assignee |-> Undefined, source |-> "webhook", tags |-> Undefined,
   metadata |-> alert]

handleIncomingAlert(store, alert, tId, rId, now, tEv, rEv) ==
  createIncident(store, alertRequest(alert), tId, rId, now, tEv, rEv)

\* ----------------------------------------------------------------- queries
getAllIncidents(store) == [i \in 1..Len(store) |-> store[i]]

\* getOpenIncidents keeping only the incidents whose status is 'open'
getOpenIncidents_onlyOpen(store) ==
  SelectSeq(getAllIncidents(store), LAMBDA incident : incident.status = "open")

getOpenIncidents(store) ==
  SelectSeq(getAllIncidents(store),
            LAMBDA incident :
              incident.status = "open" \/ incident.status = "investigating")

\* A number that need not be whole: num / den, den > 0
Ratio(num, den) == [num |-> num, den |-> den]

SameNumber(a, b) == a.num * b.den = b.num * a.den

\* 1000 * 60, the milliseconds of a minute
MsPerMinute == 60000

\* array.reduce((sum, incident) => incident.resolvedAt
\*   ? sum + (resolvedAt.getTime() - createdAt.getTime()) : sum, 0)
RECURSIVE reduceResolutionTime(_)
reduceResolutionTime(array) ==
  IF array = <<>> THEN 0
  ELSE (IF Head(array).resolvedAt # NoDate
        THEN Head(array).resolvedAt - Head(array).createdAt ELSE 0)
       + reduceResolutionTime(Tail(array))

\* array.filter(i => i.<field> === value).length
countWhere(array, field, value) ==
  Len(SelectSeq(array, LAMBDA i : i[field] = value))

\* getIncidentMetrics counting under 'resolved' every incident that has a
\* resolvedAt
getIncidentMetrics_resolvedByDate(store) ==
  LET all == getAllIncidents(store)
      resolved == SelectSeq(all, LAMBDA i : i.resolvedAt # NoDate)
      avgResolutionTime ==
        IF Len(resolved) > 0
        THEN Ratio(reduceResolutionTime(resolved), Len(resolved) * MsPerMinute)
        ELSE Ratio(0, 1)
  IN [total |-> Len(all),
      open |-> countWhere(all, "status", "open"),
      investigating |-> countWhere(all, "status", "investigating"),
      resolved |-> Len(resolved),
      closed |-> countWhere(all, "status", "closed"),
      bySeverity |-> [P0 |-> countWhere(all, "severity", "P0"),
                      P1 |-> countWhere(all, "severity", "P1"),
                      P2 |-> countWhere(all, "severity", "P2"),
                      P3 |-> countWhere(all, "severity", "P3")],
      avgResolutionTime |-> avgResolutionTime]

\* getIncidentMetrics averaging over the incidents whose status is
\* 'resolved' only
getIncidentMetrics_avgOverStatus(store) ==
  LET all == getAllIncidents(store)
      resolved == SelectSeq(all, LAMBDA i : i.status = "resolved")
      avgResolutionTime ==
        IF Len(resolved) > 0
        THEN Ratio(reduceResolutionTime(resolved), Len(resolved) * MsPerMinute)
        ELSE Ratio(0, 1)
  IN [total |-> Len(all),
      open |-> countWhere(all, "status", "open"),
      investigating |-> countWhere(all, "status", "investigating"),
      resolved |-> countWhere(all, "status", "resolved"),
      closed |-> countWhere(all, "status", "closed"),
      bySeverity |-> [P0 |-> countWhere(all, "severity", "P0"),
                      P1 |-> countWhere(all, "severity", "P1"),
                      P2 |-> countWhere(all, "severity", "P2"),
                      P3 |-> countWhere(all, "severity", "P3")],
      avgResolutionTime |-> avgResolutionTime]

getIncidentMetrics(store) ==
  LET all == getAllIncidents(store)
      resolved == SelectSeq(all, LAMBDA i : i.resolvedAt # NoDate)
      avgResolutionTime ==
        IF Len(resolved) > 0
        THEN Ratio(reduceResolutionTime(resolved), Len(resolved) * MsPerMinute)
        ELSE Ratio(0, 1)
  IN [total |-> Len(all),
      open |-> countWhere(all, "status", "open"),
      investigating |-> countWhere(all, "status", "investigating"),
      resolved |-> countWhere(all, "status", "resolved"),
      closed |-> countWhere(all, "status", "closed"),
      bySeverity |-> [P0 |-> countWhere(all, "severity", "P0"),
                      P1 |-> countWhere(all, "severity", "P1"),
                      P2 |-> countWhere(all, "severity", "P2"),
                      P3 |-> countWhere(all, "severity", "P3")],
      avgResolutionTime |-> avgResolutionTime]

\* ------------------------------------------------------------ on-call table
defaultSchedule ==
  [teamId |-> "default", teamName |-> "Engineering",
   primary |-> "U123456789", secondary |-> "U987654321",
   escalation |-> <<"U555666777", "U888999000">>,
   schedule |-> [timezone |-> "UTC", rotations |-> <<>>]]

\* team ids getCurrentOnCall is asked for: none, the default one and an
\* unknown one
TeamIds == {Undefined, "default", "platform"}

\* getCurrentOnCall answering with the default team's entries for a team it
\* does not know
getCurrentOnCall_fallsBackToDefault(schedules, teamId) ==
  LET known == \E i \in 1..Len(schedules) : schedules[i].teamId = teamId
      team == IF teamId = Undefined \/ ~known THEN "default" ELSE teamId
      schedule == schedules[CHOOSE i \in 1..Len(schedules) :
                              schedules[i].teamId = team]
  IN [primary |-> schedule.primary, secondary |-> schedule.secondary,
      escalation |-> schedule.escalation]

getCurrentOnCall(schedules, teamId) ==
  LET team == IF teamId = Undefined THEN "default" ELSE teamId
  IN IF ~\E i \in 1..Len(schedules) : schedules[i].teamId = team
     THEN [primary |-> Undefined, secondary |-> Undefined,
           escalation |-> <<>>]
     ELSE LET schedule ==
                schedules[CHOOSE i \in 1..Len(schedules) :
                            schedules[i].teamId = team]
          IN [primary |-> schedule.primary, secondary |-> schedule.secondary,
              escalation |-> schedule.escalation]

\* ------------------------------------------------------- metrics collector
\* The values updateIncidentStatusMetrics sets on the three gauges
updateIncidentStatusMetrics(store) ==
  LET metrics == getIncidentMetrics(store)
  IN [incidentsByStatus |->
        [open |-> metrics.open, investigating |-> metrics.investigating,
         resolved |-> metrics.resolved, closed |-> metrics.closed],
      incidentsBySeverity |->
        [P0 |-> metrics.bySeverity.P0, P1 |-> metrics.bySeverity.P1,
         P2 |-> metrics.bySeverity.P2, P3 |-> metrics.bySeverity.P3],
      activeIncidents |-> [total |-> metrics.open + metrics.investigating]]

\* The milliseconds of a day between two local midnights
MsPerDay == 86400000

\* The local time of day, in milliseconds, at which the clock reads 0: one
\* millisecond before midnight, so that the day changes within MaxClock
EpochTimeOfDay == 86399999

\* date.setHours(0, 0, 0, 0): the local midnight at or before date
setHours(date) == date - ((date + EpochTimeOfDay) % MsPerDay)

\* Math.round: the nearest whole number, a half going up
MathRound(r) == (2 * r.num + r.den) \div (2 * r.den)

\* generateDailyMetrics counting an incident as created today only when its
\* createdAt is after midnight
generateDailyMetrics_afterMidnight(store, now) ==
  LET today == setHours(now)
      allIncidents == getAllIncidents(store)
      incidentsCreatedToday ==
        Len(SelectSeq(allIncidents, LAMBDA incident :
                        incident.createdAt > today))
      incidentsResolvedToday ==
        Len(SelectSeq(allIncidents, LAMBDA incident :
                        incident.resolvedAt # NoDate
                          /\ incident.resolvedAt >= today))
      criticalIncidentsToday ==
        Len(SelectSeq(allIncidents, LAMBDA incident :
                        incident.createdAt > today
                          /\ (incident.severity = "P0"
                                \/ incident.severity = "P1")))
      resolvedTodayWithTimes ==
        SelectSeq(allIncidents, LAMBDA incident :
                    incident.resolvedAt # NoDate
                      /\ incident.resolvedAt >= today)
      avgResolutionTimeToday ==
        IF Len(resolvedTodayWithTimes) > 0
        THEN Ratio(reduceResolutionTime(resolvedTodayWithTimes),
                   Len(resolvedTodayWithTimes) * MsPerMinute)
        ELSE Ratio(0, 1)
      activeIncidents == Len(getOpenIncidents(store))
  IN [incidentsCreatedToday |-> incidentsCreatedToday,
      incidentsResolvedToday |-> incidentsResolvedToday,
      avgResolutionTimeToday |-> MathRound(avgResolutionTimeToday),
      criticalIncidentsToday |-> criticalIncidentsToday,
      activeIncidents |-> activeIncidents]

generateDailyMetrics(store, now) ==
  LET today == setHours(now)
      allIncidents == getAllIncidents(store)
      incidentsCreatedToday ==
        Len(SelectSeq(allIncidents, LAMBDA incident :
                        incident.createdAt >= today))
      incidentsResolvedToday ==
        Len(SelectSeq(allIncidents, LAMBDA incident :
                        incident.resolvedAt # NoDate
                          /\ incident.resolvedAt >= today))
      criticalIncidentsToday ==
        Len(SelectSeq(allIncidents, LAMBDA incident :
                        incident.createdAt >= today
                          /\ (incident.severity = "P0"
                                \/ incident.severity = "P1")))
      resolvedTodayWithTimes ==
        SelectSeq(allIncidents, LAMBDA incident :
                    incident.resolvedAt # NoDate
                      /\ incident.resolvedAt >= today)
      avgResolutionTimeToday ==
        IF Len(resolvedTodayWithTimes) > 0
        THEN Ratio(reduceResolutionTime(resolvedTodayWithTimes),
                   Len(resolvedTodayWithTimes) * MsPerMinute)
        ELSE Ratio(0, 1)
      activeIncidents == Len(getOpenIncidents(store))
  IN [incidentsCreatedToday |-> incidentsCreatedToday,
      incidentsResolvedToday |-> incidentsResolvedToday,
      avgResolutionTimeToday |-> MathRound(avgResolutionTimeToday),
      criticalIncidentsToday |-> criticalIncidentsToday,
      activeIncidents |-> activeIncidents]

\* ------------------------------------------------------ history variables
\* hist[i] belongs to the incident object stored at incidents[i]: the number
\* of calls on it that returned success, and whether its status was ever
\* observed 'resolved' / 'closed'.  createdLog records what each
\* createIncident call returned.  last records the latest call, args the
\* arguments after the id of a call on a stored incident.
FreshHist == [calls |-> 0, everResolved |-> FALSE, everClosed |-> FALSE]

HistAfter(h, store, id, ok, fresh) ==
  [i \in 1..Len(store) |->
     LET old == IF fresh /\ store[i].id = id THEN FreshHist
                ELSE IF i <= Len(h) THEN h[i] ELSE FreshHist
         hit == ok /\ store[i].id = id
     IN [calls |-> old.calls + (IF hit THEN 1 ELSE 0),
         everResolved |-> old.everResolved \/ store[i].status = "resolved",
         everClosed |-> old.everClosed \/ store[i].status = "closed"]]

\* The place in the log of created incidents of the createIncident call that
\* made the incident now stored under id
CreationIn(log, id) ==
  CHOOSE n \in 1..Len(log) :
    /\ log[n].id = id
    /\ \A m \in 1..Len(log) : log[m].id = id => m <= n

CreationOf(id) == CreationIn(createdLog, id)

RECURSIVE TotalEvents(_)
TotalEvents(store) ==
  IF store = <<>> THEN 0
  ELSE Len(Head(store).timeline) + TotalEvents(Tail(store))

MissingId == <<"missing-id">>

StoredIds == {incidents[i].id : i \in 1..Len(incidents)}

\* Ids no createIncident call has produced yet
MissingIds == {MissingId} \ StoredIds

\* The model takes calls while fewer than MaxEvents events were appended:
\* the events of the stored timelines, and one at least for each incident
\* that a later createIncident replaced.
Room ==
  TotalEvents(incidents) + (Len(createdLog) - Len(incidents)) < MaxEvents

\* The collector before any call: its incidents-created counter, its
\* resolution-time histogram, its Slack-command counter and its
\* response-time histogram, each as the calls made on it, in order, and the
\* values its gauges hold
NoMetrics ==
  [incidentTotal |-> <<>>, incidentResolutionTime |-> <<>>,
   slackCommands |-> <<>>, responseTime |-> <<>>, gauges |-> <<>>]

Init ==
  /\ incidents = <<>>
  /\ clock = 0
  /\ last = [op |-> "init", id |-> MissingId, title |-> Undefined,
             status |-> Undefined, args |-> <<>>, ok |-> TRUE, out |-> <<>>]
  /\ hist = <<>>
  /\ createdLog = <<>>
  /\ onCallSchedules = <<defaultSchedule>>
  /\ inFlight = <<>>
  /\ collector = NoMetrics
  /\ resolveLog = <<>>
  /\ started = 0

CreatedWith(r, op, title, args) ==
  LET inc == r.ret[1]
  IN /\ incidents' = r.incidents
     /\ last' = [op |-> op, id |-> inc.id, title |-> title,
                 status |-> Undefined, args |-> args, ok |-> TRUE,
                 out |-> r.ret]
     /\ hist' = HistAfter(hist, r.incidents, inc.id, TRUE, TRUE)
     /\ createdLog' = Append(createdLog,
                             [id |-> inc.id, createdAt |-> inc.createdAt,
                              source |-> inc.source,
                              event |-> inc.timeline[1]])
     /\ UNCHANGED <<onCallSchedules, inFlight, collector, resolveLog, started>>

Created(r, op, title) == CreatedWith(r, op, title, <<>>)

Mutated(r, op, id, status, args) ==
  /\ incidents' = r.incidents
  /\ last' = [op |-> op, id |-> id, title |-> Undefined,
              status |-> status, args |-> args, ok |-> r.ret, out |-> <<>>]
  /\ hist' = HistAfter(hist, r.incidents, id, r.ret, FALSE)
  /\ UNCHANGED <<createdLog, onCallSchedules, inFlight, collector, resolveLog,
                 started>>

CanCreate == Len(createdLog) < MaxCreates /\ Room

CreateIncident ==
  /\ CanCreate
  /\ \E request \in Requests, rId \in Randoms, rEv \in EventRandoms :
     \E tId \in clock..MaxClock :
     \E now \in tId..MaxClock :
     \E tEv \in now..MaxClock :
       /\ Created(createIncident(incidents, request, tId, rId, now, tEv, rEv),
                  "createIncident", request.title)
       /\ clock' = tEv

WebhookAlert ==
  /\ CanCreate
  /\ \E alert \in Alerts, rId \in Randoms, rEv \in EventRandoms :
     \E tId \in clock..MaxClock :
     \E now \in tId..MaxClock :
     \E tEv \in now..MaxClock :
       /\ Created(handleIncomingAlert(incidents, alert, tId, rId, now, tEv,
                                      rEv),
                  "handleIncomingAlert", alertRequest(alert).title)
       /\ clock' = tEv

AssignIncident ==
  \E id \in StoredIds, assignee \in Assignees, rEv \in EventRandoms :
  \E tUpd \in clock..MaxClock :
  \E tEv \in tUpd..MaxClock :
  \E tStamp \in tEv..MaxClock :
    /\ Room
    /\ Mutated(assignIncident(incidents, id, assignee, tUpd, tEv, rEv,
                              tStamp),
               "assignIncident", id, Undefined, <<assignee>>)
    /\ clock' = tStamp

UpdateIncidentStatus ==
  \E id \in StoredIds, status \in Statuses, userId \in Actors,
     rEv \in EventRandoms :
  \E tUpd \in clock..MaxClock :
  \E tSet \in IF status \in {"resolved", "closed"} THEN tUpd..MaxClock
              ELSE {tUpd} :
  \E tEv \in tSet..MaxClock :
  \E tStamp \in tEv..MaxClock :
    /\ Room
    /\ Mutated(updateIncidentStatus(incidents, id, status, userId, tUpd,
                                    tSet, tEv, rEv, tStamp),
               "updateIncidentStatus", id, status, <<status, userId>>)
    /\ clock' = tStamp

AddIncidentComment ==
  \E id \in StoredIds, message \in Messages, userId \in Commenters,
     rEv \in EventRandoms :
  \E tEv \in clock..MaxClock :
  \E tStamp \in tEv..MaxClock :
  \E tUpd \in tStamp..MaxClock :
    /\ Room
    /\ Mutated(addIncidentComment(incidents, id, message, userId, tEv, rEv,
                                  tStamp, tUpd),
               "addIncidentComment", id, Undefined, <<message, userId>>)
    /\ clock' = tUpd

\* The same three calls with an id the store does not hold: the lookup
\* fails before any clock read.
AssignMissing ==
  \E id \in MissingIds, assignee \in Assignees, rEv \in EventRandoms :
    /\ Room
    /\ Mutated(assignIncident(incidents, id, assignee, clock, clock, rEv,
                              clock),
               "assignIncident", id, Undefined, <<>>)
    /\ UNCHANGED clock

UpdateStatusMissing ==
  \E id \in MissingIds, status \in Statuses, userId \in Actors,
     rEv \in EventRandoms :
    /\ Room
    /\ Mutated(updateIncidentStatus(incidents, id, status, userId, clock,
                                    clock, clock, rEv, clock),
               "updateIncidentStatus", id, Undefined, <<>>)
    /\ UNCHANGED clock

CommentMissing ==
  \E id \in MissingIds, message \in Messages, userId \in Commenters,
     rEv \in EventRandoms :
    /\ Room
    /\ Mutated(addIncidentComment(incidents, id, message, userId, clock,
                                  rEv, clock, clock),
               "addIncidentComment", id, Undefined, <<>>)
    /\ UNCHANGED clock

Next ==
  \/ CreateIncident
  \/ WebhookAlert
  \/ AssignIncident
  \/ UpdateIncidentStatus
  \/ AddIncidentComment
  \/ AssignMissing
  \/ UpdateStatusMissing
  \/ CommentMissing

Spec == Init /\ [][Next]_vars

\* ------------------------------------------------------------ query calls
\* A call that reads: it answers out and leaves the incident store and the
\* on-call table as they are.
Answered(op, id, out) ==
  /\ last' = [op |-> op, id |-> id, title |-> Undefined,
              status |-> Undefined, args |-> <<>>, ok |-> TRUE, out |-> out]
  /\ UNCHANGED <<incidents, hist, createdLog, onCallSchedules, inFlight,
                 collector, resolveLog, started>>

GetIncident ==
  \E id \in StoredIds \cup MissingIds :
    /\ Answered("getIncident", id, getIncident(incidents, id))
    /\ UNCHANGED clock

GetAllIncidents ==
  /\ Answered("getAllIncidents", MissingId, <<getAllIncidents(incidents)>>)
  /\ UNCHANGED clock

\* getOpenIncidents deleting from the Map the incidents it leaves out
GetOpenIncidents_deletesTheRest ==
  /\ last' = [op |-> "getOpenIncidents", id |-> MissingId,
              title |-> Undefined, status |-> Undefined, args |-> <<>>,
              ok |-> TRUE, out |-> <<getOpenIncidents(incidents)>>]
  /\ incidents' = getOpenIncidents(incidents)
  /\ UNCHANGED <<hist, createdLog, onCallSchedules, clock, inFlight, collector,
                 resolveLog, started>>

GetOpenIncidents ==
  /\ Answered("getOpenIncidents", MissingId, <<getOpenIncidents(incidents)>>)
  /\ UNCHANGED clock

GetIncidentMetrics ==
  /\ Answered("getIncidentMetrics", MissingId,
              <<getIncidentMetrics(incidents)>>)
  /\ UNCHANGED clock

GetCurrentOnCall ==
  \E teamId \in TeamIds :
    /\ Answered("getCurrentOnCall", <<teamId>>,
                <<getCurrentOnCall(onCallSchedules, teamId)>>)
    /\ UNCHANGED clock

UpdateIncidentStatusMetrics ==
  /\ Answered("updateIncidentStatusMetrics", MissingId,
              <<updateIncidentStatusMetrics(incidents)>>)
  /\ UNCHANGED clock

\* new Date() is one more read of the clock
GenerateDailyMetrics ==
  \E now \in clock..MaxClock :
    /\ Answered("generateDailyMetrics", MissingId,
                <<generateDailyMetrics(incidents, now)>>)
    /\ clock' = now

NextQueries ==
  \/ Next
  \/ GetIncident
  \/ GetAllIncidents
  \/ GetOpenIncidents
  \/ GetIncidentMetrics
  \/ GetCurrentOnCall
  \/ UpdateIncidentStatusMetrics
  \/ GenerateDailyMetrics

\* The store's calls together with the calls that read it
SpecQueries == Init /\ [][NextQueries]_vars

\* ---------------------------------------------------------- severity calls
MaxAlerts == 1

\* The severity tokens alerts arrive with: the listed tokens in lower, upper
\* and capitalised spelling, tokens that are in no list, the empty string and
\* no token at all
SeverityTokens ==
  {"critical", "CRITICAL", "Critical", "p0", "P0", "sev0", "SEV0", "Sev0",
   "high", "HIGH", "High", "p1", "P1", "sev1", "SEV1", "Sev1",
   "medium", "MEDIUM", "Medium", "p2", "P2", "sev2", "SEV2",
   "low", "LOW", "Low", "p3", "P3", "sev3", "SEV3", "warning", "WARNING",
   "info", "Info", "highest", "critical high", "", Undefined}

\* Alerts that carry a token as severity, as priority, or as both
SeverityAlerts ==
  {[severity |-> s, priority |-> p, summary |-> "disk full",
    title |-> Undefined, description |-> Undefined, message |-> "92%"] :
     s \in SeverityTokens, p \in {Undefined, "sev1"}}
  \cup
  {[severity |-> s, priority |-> p, summary |-> "disk full",
    title |-> Undefined, description |-> Undefined, message |-> "92%"] :
     s \in {Undefined, ""}, p \in SeverityTokens}

\* An alert posted to /webhook/alert; the call records the token that
\* handleIncomingAlert hands to mapAlertSeverity
AlertWithSeverity ==
  /\ Len(createdLog) < MaxAlerts
  /\ Room
  /\ \E alert \in SeverityAlerts, rId \in Randoms, rEv \in EventRandoms :
     \E tId \in clock..MaxClock :
     \E now \in tId..MaxClock :
     \E tEv \in now..MaxClock :
       /\ CreatedWith(handleIncomingAlert(incidents, alert, tId, rId, now,
                                          tEv, rEv),
                      "handleIncomingAlert", alertRequest(alert).title,
                      <<OrElse(alert.severity, alert.priority)>>)
       /\ clock' = tEv

NextSeverity == AlertWithSeverity

\* The webhook alone, over every severity token
SpecSeverity == Init /\ [][NextSeverity]_vars

\* ----------------------------------------------------------- webhook route
\* JSON values of alert.severity that are no strings, written as tokens: the
\* number 2
NonStrings == {"<number 2>"}

\* (alertSeverity || '').toLowerCase() throws a TypeError when the value is
\* truthy and has no toLowerCase
mapAlertSeverityThrows(alertSeverity) == OrElse(alertSeverity, "") \in NonStrings

\* Bodies posted to /webhook/alert: the alerts above and one whose severity
\* is a number
WebhookBodies ==
  Alerts \cup
  {[severity |-> "<number 2>", priority |-> Undefined, summary |-> "disk full",
    title |-> Undefined, description |-> Undefined, message |-> "92%"]}

\* What the route answers
AlertProcessed == [status |-> 200, success |-> TRUE]
AlertFailed == [status |-> 500, success |-> FALSE]

\* POST /webhook/alert: handleIncomingAlert inside the route's try block; the
\* call records the body and the response
PostWebhookAlert ==
  /\ CanCreate
  /\ \E alert \in WebhookBodies :
       IF mapAlertSeverityThrows(OrElse(alert.severity, alert.priority))
       THEN /\ last' = [op |-> "postWebhookAlert", id |-> MissingId,
                        title |-> Undefined, status |-> Undefined,
                        args |-> <<alert, AlertFailed>>, ok |-> FALSE,
                        out |-> <<>>]
            /\ UNCHANGED <<incidents, clock, hist, createdLog,
                           onCallSchedules, inFlight, collector, resolveLog,
                           started>>
       ELSE \E rId \in Randoms, rEv \in EventRandoms :
            \E tId \in clock..MaxClock :
            \E now \in tId..MaxClock :
            \E tEv \in now..MaxClock :
              /\ CreatedWith(handleIncomingAlert(incidents, alert, tId, rId,
                                                 now, tEv, rEv),
                             "postWebhookAlert", alertRequest(alert).title,
                             <<alert, AlertProcessed>>)
              /\ clock' = tEv

NextWebhook == PostWebhookAlert

\* The webhook route alone
SpecWebhook == Init /\ [][NextWebhook]_vars

\* ----------------------------------------------------------- slack adapter
\* The Slack handlers run as steps that end at an await; between two steps of
\* one handler the steps of other handlers, webhook requests and API
\* requests may run.  inFlight holds the handlers that are at an await,
\* started counts the Slack requests taken, resolveLog records, for each
\* updateIncidentStatus(id, 'resolved') a Slack handler made with success,
\* the severity and the resolution time in minutes of the incident as the
\* call left it.  respond() and ack() are taken to succeed.
MaxRequests == 2
MaxInFlight == 2

\* command.user_id / body.user.id
SlackUsers == {"U1"}
\* the severity argument of '/incident create', already one of P0..P3
SlackSeverities == {"P2"}
\* a channel that conversations.create did not make
GeneralChannel == "C0"
\* the channel conversations.create makes for the obj-th created incident
channelOf(obj) == <<"C1", "C2", "C3", "C4", "C5">>[obj]
\* command.channel_id: any channel made so far, or the general one
CommandChannels == {GeneralChannel} \cup {channelOf(n) : n \in 1..Len(createdLog)}

CanStartWithin(limit) == started < limit /\ Len(inFlight) < MaxInFlight

CanStart == CanStartWithin(MaxRequests)

Without(seq, k) == SubSeq(seq, 1, k - 1) \o SubSeq(seq, k + 1, Len(seq))

\* The incident object a handler holds: the stored one while the store still
\* holds that object under its id, else the object as the handler got it
HeldObject(h) ==
  IF MapHas(incidents, h.id) /\ CreationOf(h.id) = h.obj
  THEN MapGet(incidents, h.id)
  ELSE h.incident[1]

\* The collector after updateIncidentStatusMetrics(incidentManager): its
\* gauges hold the values computed from the store; gauges is empty as long
\* as no call has set them
gaugesSet(m, store) ==
  [m EXCEPT !.gauges = <<updateIncidentStatusMetrics(store)>>]

recordIncidentCreated(m, severity, source) ==
  [m EXCEPT !.incidentTotal = Append(@, <<severity, source>>)]

recordIncidentResolved(m, severity, resolutionTimeMinutes) ==
  [m EXCEPT !.incidentResolutionTime =
              Append(@, [severity |-> severity,
                         value |-> resolutionTimeMinutes])]

recordSlackCommand(m, command, success) ==
  [m EXCEPT !.slackCommands = Append(@, <<command, success>>)]

recordResponseTime(m, operation, duration) ==
  [m EXCEPT !.responseTime = Append(@, <<operation, duration>>)]

\* (resolvedAt - createdAt) / (1000 * 60)
resolutionTime(incident) ==
  Ratio(incident.resolvedAt - incident.createdAt, MsPerMinute)

\* The finally block of the '/incident' command
commandFinally(m, startTime, success, now) ==
  recordResponseTime(recordSlackCommand(m, "incident", success),
                     "incident_command", Ratio(now - startTime, 1000))

\* A find that looks through every incident, not the open ones
findByChannel_anyStatus(store, channelId) ==
  SelectSeq(getAllIncidents(store),
            LAMBDA incident : incident.channelId = channelId)

\* openIncidents.find(inc => inc.channelId === channelId)
findByChannel(store, channelId) ==
  SelectSeq(getOpenIncidents(store),
            LAMBDA incident : incident.channelId = channelId)

\* A step of a Slack handler: what it did last, on which incident
Stepped(op, id, ok, args, out) ==
  last' = [op |-> op, id |-> id, title |-> Undefined, status |-> Undefined,
           args |-> args, ok |-> ok, out |-> out]

\* String.prototype.toUpperCase on the words a command is given
toUpperCase(word) ==
  CASE word = "p2" -> "P2"
    [] word = "p5" -> "P5"
    [] word = "down" -> "DOWN"
    [] word = "down\"" -> "DOWN\""
    [] OTHER -> word

\* args.slice(0, -1).join(' ').replace(/"/g, '')
createTitle(args) ==
  LET words == SubSeq(args, 1, Len(args) - 1)
  IN CASE words = <<"DB", "down">> -> "DB down"
       [] words = <<"\"DB", "down\"">> -> "DB down"
       [] words = <<"down">> -> "down"
       [] OTHER -> ""

\* A validation that checks the number of arguments only
createArgsRejected_countOnly(args) == Len(args) < 2

\* The two checks of handleCreateIncident on its arguments
createArgsRejected(args) ==
  \/ Len(args) < 2
  \/ toUpperCase(args[Len(args)]) \notin Severities

\* '/incident create' answering its usage or 'Invalid severity' and ending
CreateRejected(args, startTime, now) ==
  /\ collector' = commandFinally(collector, startTime, TRUE, now)
  /\ started' = started + 1
  /\ Stepped("slackCreate", MissingId, FALSE, <<"respond", args>>, <<>>)
  /\ clock' = now
  /\ UNCHANGED <<incidents, hist, createdLog, onCallSchedules, inFlight,
                 resolveLog>>

\* '/incident create' with the words args, up to the await of
\* createIncident, taken while fewer than limit requests have started
SlackCreateFrom(limit, args) ==
  /\ CanStartWithin(limit)
  /\ IF createArgsRejected(args)
     THEN \E startTime \in clock..MaxClock :
          \E now \in startTime..MaxClock :
            CreateRejected(args, startTime, now)
     ELSE /\ CanCreate
          /\ \E userId \in SlackUsers,
                rId \in Randoms, rEv \in EventRandoms :
             \E startTime \in clock..MaxClock :
             \E tId \in startTime..MaxClock :
             \E now \in tId..MaxClock :
             \E tEv \in now..MaxClock :
               LET severity == toUpperCase(args[Len(args)])
                   request == [title |-> createTitle(args), description |-> Undefined,
                               severity |-> severity, assignee |-> userId,
                               source |-> "manual", tags |-> Undefined,
                               metadata |-> NoMeta]
                   r == createIncident(incidents, request, tId, rId, now, tEv, rEv)
                   incident == r.ret[1]
               IN /\ incidents' = r.incidents
                  /\ hist' = HistAfter(hist, r.incidents, incident.id, TRUE, TRUE)
                  /\ createdLog' = Append(createdLog,
                                          [id |-> incident.id,
                                           createdAt |-> incident.createdAt,
                                           source |-> incident.source,
                                           event |-> incident.timeline[1]])
                  /\ inFlight' = Append(inFlight,
                                        [kind |-> "create", pc |-> "channel",
                                         id |-> incident.id,
                                         obj |-> Len(createdLog) + 1,
                                         incident |-> <<incident>>,
                                         channel |-> Undefined, userId |-> userId,
                                         severity |-> severity, success |-> TRUE,
                                         startTime |-> startTime])
                  /\ started' = started + 1
                  /\ Stepped("slackCreate", incident.id, TRUE,
                             <<"createIncident", args>>, r.ret)
                  /\ clock' = tEv
                  /\ UNCHANGED <<onCallSchedules, collector, resolveLog>>

\* '/incident create "DB down" <severity>'
SlackCreateWithin(limit) ==
  \E severity \in SlackSeverities :
    SlackCreateFrom(limit, <<"\"DB", "down\"", severity>>)

SlackCreate == SlackCreateWithin(MaxRequests)

\* conversations.create answered: the channel id goes on the incident object
\* and the invitations start; or it failed, and the catch block responds
SlackCreateChannel ==
  \E k \in 1..Len(inFlight), created \in BOOLEAN :
    LET h == inFlight[k]
        stored == MapHas(incidents, h.id) /\ CreationOf(h.id) = h.obj
        object == [HeldObject(h) EXCEPT !.channelId = channelOf(h.obj)]
    IN /\ h.kind = "create"
       /\ h.pc = "channel"
       /\ IF created
          THEN /\ incidents' =
                    IF stored
                    THEN [incidents EXCEPT ![MapIndex(incidents, h.id)] = object]
                    ELSE incidents
               /\ inFlight' =
                    [inFlight EXCEPT ![k] =
                       [h EXCEPT !.pc = "invite", !.incident = <<object>>,
                                 !.channel = channelOf(h.obj)]]
               /\ Stepped("slackCreate", h.id, TRUE, <<"conversations.create">>,
                          <<>>)
               /\ UNCHANGED <<collector, clock>>
          ELSE \E now \in clock..MaxClock :
                 /\ inFlight' = Without(inFlight, k)
                 /\ collector' = commandFinally(collector, h.startTime, TRUE,
                                                now)
                 /\ Stepped("slackCreate", h.id, FALSE,
                            <<"conversations.create">>, <<>>)
                 /\ clock' = now
                 /\ UNCHANGED incidents
       /\ UNCHANGED <<hist, createdLog, onCallSchedules, resolveLog, started>>

\* the invitations of the requester and the on-call users were answered; a
\* failed one is logged and the loop goes on
SlackCreateInvite ==
  \E k \in 1..Len(inFlight), invited \in BOOLEAN :
    LET h == inFlight[k]
    IN /\ h.kind = "create"
       /\ h.pc = "invite"
       /\ inFlight' = [inFlight EXCEPT ![k] = [h EXCEPT !.pc = "post"]]
       /\ Stepped("slackCreate", h.id, invited, <<"conversations.invite">>,
                  <<>>)
       /\ UNCHANGED <<incidents, clock, hist, createdLog, onCallSchedules,
                      collector, resolveLog, started>>

\* '/incident create' deleting its incident when chat.postMessage fails
SlackCreatePost_rollsBack ==
  \E k \in 1..Len(inFlight), posted \in BOOLEAN :
  \E now \in clock..MaxClock :
    LET h == inFlight[k]
        counted == IF posted
                   THEN gaugesSet(recordIncidentCreated(collector, h.severity,
                                                        "manual"),
                                  incidents)
                   ELSE collector
    IN /\ h.kind = "create"
       /\ h.pc = "post"
       /\ inFlight' = Without(inFlight, k)
       /\ collector' = commandFinally(counted, h.startTime, TRUE, now)
       /\ Stepped("slackCreate", h.id, posted, <<"chat.postMessage">>,
                  IF posted THEN <<updateIncidentStatusMetrics(incidents)>>
                  ELSE <<>>)
       /\ clock' = now
       /\ incidents' =
            IF posted \/ ~MapHas(incidents, h.id) THEN incidents
            ELSE Without(incidents, MapIndex(incidents, h.id))
       /\ hist' =
            IF posted \/ ~MapHas(incidents, h.id) THEN hist
            ELSE Without(hist, MapIndex(incidents, h.id))
       /\ UNCHANGED <<createdLog, onCallSchedules, resolveLog, started>>

\* chat.postMessage answered: the created counter is incremented and the
\* command ends; or it failed, and the catch block responds
SlackCreatePost ==
  \E k \in 1..Len(inFlight), posted \in BOOLEAN :
  \E now \in clock..MaxClock :
    LET h == inFlight[k]
        counted == IF posted
                   THEN gaugesSet(recordIncidentCreated(collector, h.severity,
                                                        "manual"),
                                  incidents)
                   ELSE collector
    IN /\ h.kind = "create"
       /\ h.pc = "post"
       /\ inFlight' = Without(inFlight, k)
       /\ collector' = commandFinally(counted, h.startTime, TRUE, now)
       /\ Stepped("slackCreate", h.id, posted, <<"chat.postMessage">>,
                  IF posted THEN <<updateIncidentStatusMetrics(incidents)>>
                  ELSE <<>>)
       /\ clock' = now
       /\ UNCHANGED <<incidents, hist, createdLog, onCallSchedules,
                      resolveLog, started>>

\* A command that finds no active incident in its channel responds and ends
NoIncidentInChannel(op, channelId, startTime, now) ==
  /\ collector' = commandFinally(collector, startTime, TRUE, now)
  /\ started' = started + 1
  /\ Stepped(op, MissingId, FALSE, <<"find", channelId>>, <<>>)
  /\ clock' = now
  /\ UNCHANGED <<incidents, hist, createdLog, onCallSchedules, inFlight,
                 resolveLog>>

\* '/incident resolve' up to the await of updateIncidentStatus, taken while
\* fewer than limit requests have started
SlackResolveWithin(limit) ==
  /\ CanStartWithin(limit)
  /\ \E channelId \in CommandChannels, userId \in SlackUsers,
        rEv \in EventRandoms :
     \E startTime \in clock..MaxClock :
       LET found == findByChannel(incidents, channelId)
       IN IF found = <<>>
          THEN \E now \in startTime..MaxClock :
                 NoIncidentInChannel("slackResolve", channelId, startTime,
                                     now)
          ELSE \E tUpd \in startTime..MaxClock :
               \E tSet \in tUpd..MaxClock :
               \E tEv \in tSet..MaxClock :
               \E tStamp \in tEv..MaxClock :
                 LET id == found[1].id
                     r == updateIncidentStatus(incidents, id, "resolved",
                                               userId, tUpd, tSet, tEv, rEv,
                                               tStamp)
                     resolved == MapGet(r.incidents, id)
                 IN /\ Room
                    /\ incidents' = r.incidents
                    /\ hist' = HistAfter(hist, r.incidents, id, r.ret, FALSE)
                    /\ resolveLog' =
                         Append(resolveLog,
                                [severity |-> resolved.severity,
                                 value |-> resolutionTime(resolved)])
                    /\ inFlight' =
                         Append(inFlight,
                                [kind |-> "resolve", pc |-> "observe",
                                 id |-> id, obj |-> CreationOf(id),
                                 incident |-> <<found[1]>>,
                                 channel |-> channelId, userId |-> userId,
                                 severity |-> Undefined, success |-> r.ret,
                                 startTime |-> startTime])
                    /\ started' = started + 1
                    /\ Stepped("slackResolve", id, r.ret,
                               <<"updateIncidentStatus", channelId>>, <<>>)
                    /\ clock' = tStamp
                    /\ UNCHANGED <<createdLog, onCallSchedules, collector>>

SlackResolve == SlackResolveWithin(MaxRequests)

\* '/incident resolve' after the await: the incident is looked up again and,
\* its resolvedAt being set, its resolution time is observed
SlackResolveObserve ==
  \E k \in 1..Len(inFlight) :
  \E now \in clock..MaxClock :
    LET h == inFlight[k]
        updatedIncident == getIncident(incidents, h.id)
        observes == /\ h.success
                    /\ updatedIncident # <<>>
                    /\ updatedIncident[1].resolvedAt # NoDate
        observed ==
          IF observes
          THEN recordIncidentResolved(collector, updatedIncident[1].severity,
                                      resolutionTime(updatedIncident[1]))
          ELSE collector
    IN /\ h.kind = "resolve"
       /\ h.pc = "observe"
       /\ inFlight' = Without(inFlight, k)
       /\ collector' = commandFinally(observed, h.startTime, TRUE, now)
       /\ Stepped("slackResolve", h.id, observes,
                  <<"recordIncidentResolved">>, updatedIncident)
       /\ clock' = now
       /\ UNCHANGED <<incidents, hist, createdLog, onCallSchedules,
                      resolveLog, started>>

\* the resolve button up to the await of updateIncidentStatus; body.channel
\* is there when the button sits in a channel message
ResolveButton ==
  /\ CanStart
  /\ Room
  /\ \E incidentId \in StoredIds \cup MissingIds, userId \in SlackUsers,
        hasChannel \in BOOLEAN, rEv \in EventRandoms :
     \E tUpd \in clock..MaxClock :
     \E tSet \in tUpd..MaxClock :
     \E tEv \in tSet..MaxClock :
     \E tStamp \in tEv..MaxClock :
       LET r == updateIncidentStatus(incidents, incidentId, "resolved",
                                     userId, tUpd, tSet, tEv, rEv, tStamp)
       IN /\ incidents' = r.incidents
          /\ hist' = HistAfter(hist, r.incidents, incidentId, r.ret, FALSE)
          /\ resolveLog' =
               IF r.ret
               THEN LET resolved == MapGet(r.incidents, incidentId)
                    IN Append(resolveLog,
                              [severity |-> resolved.severity,
                               value |-> resolutionTime(resolved)])
               ELSE resolveLog
          /\ inFlight' =
               Append(inFlight,
                      [kind |-> "button", pc |-> "lookup", id |-> incidentId,
                       obj |-> 0, incident |-> <<>>,
                       channel |-> IF hasChannel THEN GeneralChannel
                                   ELSE Undefined,
                       userId |-> userId, severity |-> Undefined,
                       success |-> r.ret, startTime |-> clock])
          /\ started' = started + 1
          /\ Stepped("resolveButton", incidentId, r.ret,
                     <<"updateIncidentStatus">>, <<>>)
          /\ clock' = IF r.ret THEN tStamp ELSE clock
          /\ UNCHANGED <<createdLog, onCallSchedules, collector>>

\* the resolve button after the await: on success the incident is looked up
\* and, when the body names a channel, the message is posted; else the
\* handler ends
ResolveButtonLookup ==
  \E k \in 1..Len(inFlight) :
    LET h == inFlight[k]
        incident == getIncident(incidents, h.id)
        posts == h.success /\ incident # <<>> /\ h.channel # Undefined
    IN /\ h.kind = "button"
       /\ h.pc = "lookup"
       /\ inFlight' =
            IF posts
            THEN [inFlight EXCEPT ![k] =
                    [h EXCEPT !.pc = "post", !.obj = CreationOf(h.id),
                              !.incident = incident]]
            ELSE Without(inFlight, k)
       /\ Stepped("resolveButton", h.id, posts, <<"getIncident">>, incident)
       /\ UNCHANGED <<incidents, clock, hist, createdLog, onCallSchedules,
                      collector, resolveLog, started>>

\* chat.postMessage answered: the resolution time of the incident object is
\* observed; or it failed, and the catch block logs
ResolveButtonPost ==
  \E k \in 1..Len(inFlight), posted \in BOOLEAN :
    LET h == inFlight[k]
        incident == HeldObject(h)
        observes == posted /\ incident.resolvedAt # NoDate
    IN /\ h.kind = "button"
       /\ h.pc = "post"
       /\ inFlight' = Without(inFlight, k)
       /\ collector' =
            IF observes
            THEN recordIncidentResolved(collector, incident.severity,
                                        resolutionTime(incident))
            ELSE collector
       /\ Stepped("resolveButton", h.id, observes,
                  <<"chat.postMessage">>, <<incident>>)
       /\ UNCHANGED <<incidents, clock, hist, createdLog, onCallSchedules,
                      resolveLog, started>>

\* '/incident assign <@user>' up to the await of assignIncident, taken while
\* fewer than limit requests have started
SlackAssignWithin(limit) ==
  /\ CanStartWithin(limit)
  /\ \E channelId \in CommandChannels, userId \in Assignees,
        rEv \in EventRandoms :
     \E startTime \in clock..MaxClock :
       LET found == findByChannel(incidents, channelId)
       IN IF found = <<>>
          THEN \E now \in startTime..MaxClock :
                 NoIncidentInChannel("slackAssign", channelId, startTime,
                                     now)
          ELSE \E tUpd \in startTime..MaxClock :
               \E tEv \in tUpd..MaxClock :
               \E tStamp \in tEv..MaxClock :
                 LET id == found[1].id
                     r == assignIncident(incidents, id, userId, tUpd, tEv,
                                         rEv, tStamp)
                 IN /\ Room
                    /\ incidents' = r.incidents
                    /\ hist' = HistAfter(hist, r.incidents, id, r.ret, FALSE)
                    /\ inFlight' =
                         Append(inFlight,
                                [kind |-> "assign", pc |-> "respond",
                                 id |-> id, obj |-> CreationOf(id),
                                 incident |-> <<found[1]>>,
                                 channel |-> channelId, userId |-> userId,
                                 severity |-> Undefined, success |-> r.ret,
                                 startTime |-> startTime])
                    /\ started' = started + 1
                    /\ Stepped("slackAssign", id, r.ret,
                               <<"assignIncident", channelId>>, <<>>)
                    /\ clock' = tStamp
                    /\ UNCHANGED <<createdLog, onCallSchedules, collector,
                                   resolveLog>>

SlackAssign == SlackAssignWithin(MaxRequests)

\* '/incident assign' after the await: the command responds and ends
SlackAssignRespond ==
  \E k \in 1..Len(inFlight) :
  \E now \in clock..MaxClock :
    LET h == inFlight[k]
    IN /\ h.kind = "assign"
       /\ h.pc = "respond"
       /\ inFlight' = Without(inFlight, k)
       /\ collector' = commandFinally(collector, h.startTime, TRUE, now)
       /\ Stepped("slackAssign", h.id, h.success, <<"respond">>, <<>>)
       /\ clock' = now
       /\ UNCHANGED <<incidents, hist, createdLog, onCallSchedules,
                      resolveLog, started>>

\* GET /api/incidents reads the store in one step (GET /api/incidents/:id
\* hands out one of the objects it lists); POST /webhook/alert creates its
\* incident in one step
NextSlack ==
  \/ SlackCreate
  \/ SlackCreateChannel
  \/ SlackCreateInvite
  \/ SlackCreatePost
  \/ SlackResolve
  \/ SlackResolveObserve
  \/ ResolveButton
  \/ ResolveButtonLookup
  \/ ResolveButtonPost
  \/ SlackAssign
  \/ SlackAssignRespond
  \/ WebhookAlert
  \/ GetAllIncidents

\* The Slack handlers, the webhook and the API readers, interleaved at the
\* handlers' awaits
SpecSlack == Init /\ [][NextSlack]_vars

\* The '/incident' commands alone, one more of them than above: a create and
\* two commands that follow it
MaxCommands == 3

CreateCommand == SlackCreateWithin(MaxCommands)

ResolveCommand == SlackResolveWithin(MaxCommands)

AssignCommand == SlackAssignWithin(MaxCommands)

NextCommands ==
  \/ CreateCommand
  \/ SlackCreateChannel
  \/ SlackCreateInvite
  \/ SlackCreatePost
  \/ ResolveCommand
  \/ SlackResolveObserve
  \/ AssignCommand
  \/ SlackAssignRespond

SpecCommands == Init /\ [][NextCommands]_vars

\* The words '/incident create' is given: none, one, two without a
\* severity, an unknown severity, and two well-formed commands
CreateArgs ==
  {<<>>, <<"P2">>, <<"DB", "down">>, <<"DB", "down", "p5">>,
   <<"\"DB", "down\"", "p2">>, <<"down", "P1">>}

CreateWithArgs == \E args \in CreateArgs : SlackCreateFrom(MaxCommands, args)

NextCreate ==
  \/ CreateWithArgs
  \/ SlackCreateChannel
  \/ SlackCreateInvite
  \/ SlackCreatePost

\* '/incident create' alone, with well-formed and malformed arguments
SpecCreate == Init /\ [][NextCreate]_vars

\* ----------------------------------------------------------------- claims
Creators == {"createIncident", "handleIncomingAlert"}

Mutators == {"assignIncident", "updateIncidentStatus", "addIncidentComment"}

Slots == 1..Len(incidents)

\* C1: the incident a createIncident call returns has status 'open', a
\* timeline of exactly one event, of type 'created', and createdAt equal to
\* updatedAt.
C1_CreatedIncidentShape ==
  last.op \in Creators =>
    /\ Len(last.out) = 1
    /\ last.out[1].status = "open"
    /\ Len(last.out[1].timeline) = 1
    /\ last.out[1].timeline[1].type = "created"
    /\ last.out[1].createdAt = last.out[1].updatedAt

\* a createIncident call returned while an earlier incident is stored and
\* the clock had advanced
C1_Witness ==
  /\ last.op = "createIncident"
  /\ Len(incidents) = 2
  /\ last.out[1].createdAt > 0

\* C2: the timeline of every stored incident is as long as the number of
\* calls on that incident that returned success, its createIncident counted;
\* a call that returned failure appended nothing.
C2_TimelineCountsCalls ==
  /\ Len(hist) = Len(incidents)
  /\ \A i \in Slots : Len(incidents[i].timeline) = hist[i].calls

\* a failed call came after two successful calls on a stored incident
C2_Witness ==
  /\ last.op \in Mutators
  /\ ~last.ok
  /\ \E i \in Slots : hist[i].calls = 2

C4_SecondResolveKeepsResolvedAt ==
  [][(/\ last.op = "updateIncidentStatus" /\ last.status = "resolved"
      /\ last.ok
      /\ last'.op = "updateIncidentStatus" /\ last'.status = "resolved"
      /\ last'.id = last.id
      /\ MapHas(incidents, last.id) /\ MapHas(incidents', last.id))
     => MapGet(incidents', last.id).resolvedAt
          = MapGet(incidents, last.id).resolvedAt]_vars

\* C5: resolvedAt is set exactly when the incident's status has been
\* 'resolved' at some point since its creation, closedAt exactly when it
\* has been 'closed'; everResolved / everClosed never go back to FALSE, so
\* a field that is set is never cleared.
C5_SetIffEverReached ==
  \A i \in Slots :
    /\ (incidents[i].resolvedAt # NoDate) <=> hist[i].everResolved
    /\ (incidents[i].closedAt # NoDate) <=> hist[i].everClosed

\* an incident that was resolved and then moved back to 'open' or
\* 'investigating'
C5_Witness ==
  \E i \in Slots :
    /\ hist[i].everResolved
    /\ incidents[i].status \in {"open", "investigating"}
    /\ incidents[i].resolvedAt # NoDate

\* C6: updateIncidentStatus(id, 'closed') on an incident whose closedAt is
\* set leaves closedAt at the value it has.
C6_CloseKeepsClosedAt ==
  [][(/\ last'.op = "updateIncidentStatus" /\ last'.status = "closed"
      /\ MapHas(incidents, last'.id) /\ MapHas(incidents', last'.id)
      /\ MapGet(incidents, last'.id).closedAt # NoDate)
     => MapGet(incidents', last'.id).closedAt
          = MapGet(incidents, last'.id).closedAt]_vars

\* C7: assignIncident, updateIncidentStatus and addIncidentComment called
\* with an id the store does not hold return false and leave the store, its
\* ids and every timeline as they were.
C7_MissingIdChangesNothing ==
  [][(last'.op \in Mutators /\ ~MapHas(incidents, last'.id))
     => (last'.ok = FALSE /\ incidents' = incidents)]_vars

\* a call on a missing id was answered while two incidents are stored
C7_Witness ==
  /\ last.op \in Mutators
  /\ last.id = MissingId
  /\ ~last.ok
  /\ Len(incidents) = 2

\* C8: a createIncident request with an empty or missing title is rejected
\* and leaves the store unchanged.
C8_EmptyTitleRejected ==
  [][(last'.op = "createIncident" /\ last'.title \in {"", Undefined})
     => incidents' = incidents]_vars

\* C9: every createIncident call returns an id that no earlier call
\* returned.
C9_IdsNeverReused ==
  \A i, j \in 1..Len(createdLog) :
    i # j => createdLog[i].id # createdLog[j].id

\* C10: for every incident a createIncident call returned, getIncident of
\* its id returns an incident with the same createdAt, source and creation
\* event.
C10_CreatedStaysVisible ==
  \A n \in 1..Len(createdLog) :
    LET found == getIncident(incidents, createdLog[n].id)
    IN /\ Len(found) = 1
       /\ found[1].createdAt = createdLog[n].createdAt
       /\ found[1].source = createdLog[n].source
       /\ found[1].timeline[1] = createdLog[n].event

\* The calls that read the store
Queries ==
  {"getIncident", "getAllIncidents", "getOpenIncidents", "getIncidentMetrics",
   "getCurrentOnCall", "updateIncidentStatusMetrics", "generateDailyMetrics"}

\* The positions of the stored incidents that are open or investigating
ActiveSlots == {i \in Slots : incidents[i].status \in {"open", "investigating"}}

\* The k-th smallest member of a set of positions
NthOf(S, k) == CHOOSE i \in S : Cardinality({j \in S : j <= i}) = k

\* C11: getOpenIncidents returns exactly the incidents of getAllIncidents
\* whose status is 'open' or 'investigating', each once and in the order
\* getAllIncidents lists them (the store's insertion order).
C11_OpenIncidentsAreTheActiveOnes ==
  last.op = "getOpenIncidents" =>
    LET out == last.out[1]
    IN /\ Len(out) = Cardinality(ActiveSlots)
       /\ \A k \in 1..Len(out) :
            out[k] = getAllIncidents(incidents)[NthOf(ActiveSlots, k)]

\* getOpenIncidents answered with the second of two stored incidents, the
\* first one, no longer open, left out
C11_Witness ==
  /\ last.op = "getOpenIncidents"
  /\ Len(incidents) = 2
  /\ ActiveSlots = {2}
  /\ last.out[1] = <<incidents[2]>>

\* C12: the snapshot getIncidentMetrics returns has open + investigating +
\* resolved + closed = total and bySeverity.P0 + P1 + P2 + P3 = total, and
\* total is the number of stored incidents.
C12_MetricsPartitionTheStore ==
  last.op = "getIncidentMetrics" =>
    LET m == last.out[1]
    IN /\ m.open + m.investigating + m.resolved + m.closed = m.total
       /\ m.bySeverity.P0 + m.bySeverity.P1 + m.bySeverity.P2
            + m.bySeverity.P3 = m.total
       /\ m.total = Cardinality(StoredIds)

\* getIncidentMetrics answered over two incidents of different severity, one
\* of them resolved
C12_Witness ==
  /\ last.op = "getIncidentMetrics"
  /\ last.out[1].total = 2
  /\ last.out[1].resolved = 1
  /\ last.out[1].open = 1
  /\ last.out[1].bySeverity.P1 = 1
  /\ last.out[1].bySeverity.P3 = 1

\* 1 when the two values are the same, else 0
Unit(a, b) == IF a = b THEN 1 ELSE 0

\* C13: a successful updateIncidentStatus(id, s) on an incident whose status
\* is s0 moves the getIncidentMetrics snapshot by +1 on the count of s and
\* -1 on the count of s0 (nothing when s = s0), and leaves total and the
\* per-severity counts as they were.
C13_StatusUpdateMovesOneUnit ==
  [][(last'.op = "updateIncidentStatus" /\ last'.ok)
     => LET before == getIncidentMetrics(incidents)
            after == getIncidentMetrics(incidents')
            s0 == MapGet(incidents, last'.id).status
            s == last'.status
        IN /\ \A st \in Statuses :
                after[st] = before[st] + Unit(st, s) - Unit(st, s0)
           /\ after.total = before.total
           /\ after.bySeverity = before.bySeverity]_vars

\* of two stored incidents one was just resolved from 'open', the other is
\* still open
C13_Witness ==
  /\ last.op = "updateIncidentStatus"
  /\ last.ok
  /\ last.status = "resolved"
  /\ Len(incidents) = 2
  /\ LET m == getIncidentMetrics(incidents)
         moved == MapGet(incidents, last.id)
     IN /\ m.open = 1
        /\ m.resolved = 1
        /\ moved.timeline[Len(moved.timeline)].metadata.oldStatus = "open"

\* w is the local midnight of the day of the instant now
IsMidnightOf(w, now) ==
  /\ w <= now
  /\ now < w + MsPerDay
  /\ (w + EpochTimeOfDay) % MsPerDay = 0

\* C14: generateDailyMetrics, its window starting at the midnight of the day
\* of its clock read, returns incidentsCreatedToday = the number of incidents
\* with createdAt >= windowStart, criticalIncidentsToday = the number of
\* those with severity P0 or P1, incidentsResolvedToday = the number of
\* incidents with resolvedAt set and >= windowStart, and activeIncidents =
\* the number of incidents with status 'open' or 'investigating', whenever
\* they were created.
C14_DailyCounts ==
  last.op = "generateDailyMetrics" =>
    LET d == last.out[1]
        windowStart == setHours(clock)
        createdToday == {i \in Slots : incidents[i].createdAt >= windowStart}
    IN /\ IsMidnightOf(windowStart, clock)
       /\ d.incidentsCreatedToday = Cardinality(createdToday)
       /\ d.criticalIncidentsToday
            = Cardinality({i \in createdToday :
                             incidents[i].severity \in {"P0", "P1"}})
       /\ d.incidentsResolvedToday
            = Cardinality({i \in Slots :
                             /\ incidents[i].resolvedAt # NoDate
                             /\ incidents[i].resolvedAt >= windowStart})
       /\ d.activeIncidents = Cardinality(ActiveSlots)

\* the report asked at midnight over an incident of yesterday and a critical
\* one created at midnight, both active
C14_Witness ==
  /\ last.op = "generateDailyMetrics"
  /\ Len(incidents) = 2
  /\ setHours(clock) = clock
  /\ last.out[1].incidentsCreatedToday = 1
  /\ last.out[1].criticalIncidentsToday = 1
  /\ last.out[1].activeIncidents = 2

\* The positions of the incidents whose resolvedAt is set and at or after w
ResolvedSince(w) ==
  {i \in Slots : incidents[i].resolvedAt # NoDate /\ incidents[i].resolvedAt >= w}

\* The positions of the incidents whose resolvedAt is set
EverResolved == {i \in Slots : incidents[i].resolvedAt # NoDate}

RECURSIVE ResolutionMs(_)
\* The sum of resolvedAt - createdAt, in milliseconds, over the positions S
ResolutionMs(S) ==
  IF S = {} THEN 0
  ELSE LET i == CHOOSE j \in S : TRUE
       IN (incidents[i].resolvedAt - incidents[i].createdAt)
            + ResolutionMs(S \ {i})

\* The mean of resolvedAt - createdAt in minutes over the positions S, 0 over
\* none
MeanResolutionMinutes(S) ==
  IF S = {} THEN Ratio(0, 1)
  ELSE Ratio(ResolutionMs(S), Cardinality(S) * MsPerMinute)

\* C15: the avgResolutionTimeToday that generateDailyMetrics returns equals
\* the mean of resolvedAt - createdAt in minutes over the incidents whose
\* resolvedAt is at or after today's midnight, and 0 when there is none.
C15_DailyAverageIsTheMean ==
  last.op = "generateDailyMetrics" =>
    SameNumber(Ratio(last.out[1].avgResolutionTimeToday, 1),
               MeanResolutionMinutes(ResolvedSince(setHours(clock))))

C17_QueriesChangeNothing ==
  [][last'.op \in Queries
     => (incidents' = incidents /\ onCallSchedules' = onCallSchedules)]_vars

\* the collector set its gauges from a store of two incidents, one of them
\* active
C17_Witness ==
  /\ last.op = "updateIncidentStatusMetrics"
  /\ Len(incidents) = 2
  /\ last.out[1].activeIncidents.total = 1
  /\ last.out[1].incidentsByStatus.closed = 1

\* The last event of an incident's timeline
LastEvent(incident) == incident.timeline[Len(incident.timeline)]

\* C18: updateIncidentStatus on a stored incident succeeds whatever the
\* current and the requested status are (closed -> open and a request equal
\* to the current status included), sets status to the requested one and
\* appends one status_changed event whose metadata has the status before the
\* call as oldStatus and the requested one as newStatus, and whose userId is
\* the actor when one is given.
C18_AnyTransitionIsRecorded ==
  [][(last'.op = "updateIncidentStatus" /\ MapHas(incidents, last'.id))
     => LET before == MapGet(incidents, last'.id)
            after == MapGet(incidents', last'.id)
            status == last'.args[1]
            userId == last'.args[2]
        IN /\ last'.ok
           /\ after.status = status
           /\ Len(after.timeline) = Len(before.timeline) + 1
           /\ SubSeq(after.timeline, 1, Len(before.timeline)) = before.timeline
           /\ LastEvent(after).type = "status_changed"
           /\ LastEvent(after).metadata
                = [oldStatus |-> before.status, newStatus |-> status]
           /\ userId # Undefined => LastEvent(after).userId = userId]_vars

\* a closed incident was reopened by a named actor
C18_Witness ==
  /\ last.op = "updateIncidentStatus"
  /\ last.ok
  /\ last.args = <<"open", "U1">>
  /\ LET incident == MapGet(incidents, last.id)
     IN /\ incident.status = "open"
        /\ incident.closedAt # NoDate
        /\ LastEvent(incident).metadata.oldStatus = "closed"
        /\ LastEvent(incident).userId = "U1"

\* C19: a successful assignIncident(id, a) sets the incident's assignee to
\* a, whoever held it before, leaves status, resolvedAt and closedAt as they
\* were, and appends exactly one event, of type 'assigned', whose metadata
\* has the assignee before the call as oldAssignee and a as newAssignee.
C19_AssignSetsAssigneeOnly ==
  [][(last'.op = "assignIncident" /\ last'.ok)
     => LET before == MapGet(incidents, last'.id)
            after == MapGet(incidents', last'.id)
            a == last'.args[1]
        IN /\ after.assignee = a
           /\ after.status = before.status
           /\ after.resolvedAt = before.resolvedAt
           /\ after.closedAt = before.closedAt
           /\ Len(after.timeline) = Len(before.timeline) + 1
           /\ SubSeq(after.timeline, 1, Len(before.timeline)) = before.timeline
           /\ LastEvent(after).type = "assigned"
           /\ LastEvent(after).metadata
                = [oldAssignee |-> before.assignee, newAssignee |-> a]]_vars

\* a resolved incident held by U1 was reassigned to U2
C19_Witness ==
  /\ last.op = "assignIncident"
  /\ last.ok
  /\ LET incident == MapGet(incidents, last.id)
     IN /\ incident.assignee = "U2"
        /\ incident.status = "resolved"
        /\ incident.resolvedAt # NoDate
        /\ LastEvent(incident).metadata
             = [oldAssignee |-> "U1", newAssignee |-> "U2"]

\* C20: a successful addIncidentComment appends exactly one event, of type
\* 'comment', with the given message and actor, and changes no field of the
\* incident but the timeline and updatedAt: status, assignee, severity,
\* resolvedAt and closedAt stay.
C20_CommentAppendsOnly ==
  [][(last'.op = "addIncidentComment" /\ last'.ok)
     => LET before == MapGet(incidents, last'.id)
            after == MapGet(incidents', last'.id)
        IN /\ Len(after.timeline) = Len(before.timeline) + 1
           /\ SubSeq(after.timeline, 1, Len(before.timeline)) = before.timeline
           /\ LastEvent(after).type = "comment"
           /\ LastEvent(after).message = last'.args[1]
           /\ LastEvent(after).userId = last'.args[2]
           /\ [after EXCEPT !.timeline = before.timeline,
                            !.updatedAt = before.updatedAt] = before]_vars

\* a comment was added, after the clock advanced, to a resolved incident
\* that has an assignee
C20_Witness ==
  /\ last.op = "addIncidentComment"
  /\ last.ok
  /\ LET incident == MapGet(incidents, last.id)
     IN /\ incident.status = "resolved"
        /\ incident.assignee = "U1"
        /\ LastEvent(incident).type = "comment"
        /\ incident.updatedAt > incident.createdAt

\* a is a prefix of b
IsPrefix(a, b) == Len(a) <= Len(b) /\ SubSeq(b, 1, Len(a)) = a

\* C21: the timeline of every incident is append-only: over every step the
\* timeline the store held for an id is a prefix of the timeline it holds
\* for that id afterwards (no event removed, reordered or modified).
C21_TimelineAppendOnly ==
  [][\A i \in Slots :
       MapHas(incidents', incidents[i].id)
         => IsPrefix(incidents[i].timeline,
                     MapGet(incidents', incidents[i].id).timeline)]_vars

\* C22: every stored incident has a non-empty timeline whose first event has
\* type 'created', and no later event of that timeline has type 'created'.
C22_CreatedEventFirstAndOnly ==
  \A i \in Slots :
    /\ Len(incidents[i].timeline) >= 1
    /\ incidents[i].timeline[1].type = "created"
    /\ \A k \in 2..Len(incidents[i].timeline) :
         incidents[i].timeline[k].type # "created"

\* an incident whose timeline went on after its creation event with a
\* status change and a comment
C22_Witness ==
  \E i \in Slots :
    /\ Len(incidents[i].timeline) = 3
    /\ incidents[i].timeline[2].type = "status_changed"
    /\ incidents[i].timeline[3].type = "comment"

C24_IdentityFieldsFrozen ==
  [][\A i \in Slots :
       MapHas(incidents', incidents[i].id)
         => LET after == MapGet(incidents', incidents[i].id)
            IN /\ after.id = incidents[i].id
               /\ after.source = incidents[i].source
               /\ after.createdAt = incidents[i].createdAt
               /\ after.metadata = incidents[i].metadata]_vars

\* C25: getAllIncidents lists the stored incidents in creation order: of any
\* two incidents of a listing, the one createIncident returned first comes
\* first.
C25_ListedInCreationOrder ==
  last.op = "getAllIncidents" =>
    LET listing == last.out[1]
    IN \A i, j \in 1..Len(listing) :
         i < j => CreationOf(listing[i].id) < CreationOf(listing[j].id)

\* The tokens that read 'critical', 'p0', 'sev0' or 'high' whatever their case
P0Tokens ==
  {"critical", "CRITICAL", "Critical", "p0", "P0", "sev0", "SEV0", "Sev0",
   "high", "HIGH", "High"}

\* The tokens that read 'p1', 'sev1' or 'medium' whatever their case
P1Tokens == {"p1", "P1", "sev1", "SEV1", "Sev1", "medium", "MEDIUM", "Medium"}

\* The tokens that read 'p2', 'sev2' or 'low' whatever their case
P2Tokens == {"p2", "P2", "sev2", "SEV2", "low", "LOW", "Low"}

SchedulesAskedFor(teamId) ==
  {i \in 1..Len(onCallSchedules) :
     onCallSchedules[i].teamId
       = (IF teamId = Undefined THEN "default" ELSE teamId)}

\* C27: getCurrentOnCall always answers; asked about no team it answers for
\* 'default'; for a team the on-call table holds it answers that team's
\* primary, secondary and escalation list; for a team the table does not
\* hold it answers an empty escalation list with no primary and no secondary.
C27_OnCallLookup ==
  last.op = "getCurrentOnCall" =>
    LET asked == SchedulesAskedFor(last.id[1])
        answer == last.out[1]
    IN /\ last.ok
       /\ \A i \in asked :
            /\ answer.primary = onCallSchedules[i].primary
            /\ answer.secondary = onCallSchedules[i].secondary
            /\ answer.escalation = onCallSchedules[i].escalation
       /\ asked = {} =>
            /\ answer.primary = Undefined
            /\ answer.secondary = Undefined
            /\ answer.escalation = <<>>

\* getCurrentOnCall was asked about a team the table does not hold and
\* answered with an empty escalation list
C27_Witness ==
  /\ last.op = "getCurrentOnCall"
  /\ last.id = <<"platform">>
  /\ \A i \in 1..Len(onCallSchedules) : onCallSchedules[i].teamId # "platform"
  /\ last.out[1].escalation = <<>>

\* How many times x occurs in the sequence s
Occurrences(s, x) == Cardinality({k \in 1..Len(s) : s[k] = x})

\* The handlers in flight that may still observe a resolution time
Observing == {k \in 1..Len(inFlight) : inFlight[k].kind \in {"resolve", "button"}}

\* C30: the resolution-time histogram holds one observation for each
\* successful updateIncidentStatus(id, 'resolved') made by '/incident
\* resolve' or by the resolve button, labelled with the incident's severity
\* and valued (resolvedAt - createdAt) in minutes: never more observations
\* than such calls, and, once the handlers that made them have ended, as many
\* observations of each label and value as calls.
C30_OneObservationPerResolution ==
  LET observed == collector.incidentResolutionTime
  IN /\ Len(observed) <= Len(resolveLog)
     /\ Observing = {} =>
          \A k \in 1..Len(resolveLog) :
            Occurrences(observed, resolveLog[k])
              = Occurrences(resolveLog, resolveLog[k])

WholeUpdate(before, after) ==
  \/ after = before
  \/ /\ after.status = before.status
     /\ after.assignee = before.assignee
     /\ after.timeline = before.timeline
     /\ after.updatedAt = before.updatedAt
  \/ /\ Len(after.timeline) = Len(before.timeline) + 1
     /\ IsPrefix(before.timeline, after.timeline)
     /\ after.updatedAt >= clock
     /\ after.updatedAt <= clock'
     /\ LET event == LastEvent(after)
        IN CASE event.type = "status_changed" ->
                  /\ event.metadata = [oldStatus |-> before.status,
                                       newStatus |-> after.status]
                  /\ after.assignee = before.assignee
             [] event.type = "assigned" ->
                  /\ event.metadata = [oldAssignee |-> before.assignee,
                                       newAssignee |-> after.assignee]
                  /\ after.status = before.status
             [] event.type = "comment" ->
                  /\ after.status = before.status
                  /\ after.assignee = before.assignee
             [] OTHER -> FALSE

\* C29: with the Slack handlers, the webhook and the API interleaved at the
\* handlers' awaits, every step leaves each stored incident object either
\* untouched in status, assignee and timeline or with the whole update
\* (field, updatedAt and timeline event), and a listing hands out the stored
\* incidents as they are: no listing sees a status, assignee or comment
\* change without its updatedAt and its event.
C29_NoHalfUpdatedIncident ==
  [][/\ \A i \in Slots :
          LET id == incidents[i].id
          IN (MapHas(incidents', id)
                /\ CreationIn(createdLog', id) = CreationOf(id))
               => WholeUpdate(incidents[i], MapGet(incidents', id))
     /\ last'.op = "getAllIncidents"
          => last'.out[1] = [i \in Slots |-> incidents[i]]]_vars

\* /api/incidents listed an incident as resolved, with its status_changed
\* event and its updatedAt, while the '/incident resolve' that resolved it
\* and the '/incident create' that made it were still at an await
C29_Witness ==
  /\ last.op = "getAllIncidents"
  /\ Len(inFlight) = 2
  /\ inFlight[1].kind = "create"
  /\ inFlight[2].kind = "resolve"
  /\ \E k \in 1..Len(last.out[1]) :
       LET incident == last.out[1][k]
       IN /\ incident.id = inFlight[2].id
          /\ incident.status = "resolved"
          /\ LastEvent(incident).type = "status_changed"
          /\ LastEvent(incident).metadata.newStatus = "resolved"
          /\ incident.updatedAt > incident.createdAt

\* C33: no two events of the stored timelines, of one incident or of two,
\* have the same id.
C33_EventIdsUnique ==
  \A i, j \in Slots :
    \A k \in 1..Len(incidents[i].timeline) :
      \A l \in 1..Len(incidents[j].timeline) :
        (i # j \/ k # l)
          => incidents[i].timeline[k].id # incidents[j].timeline[l].id

\* The status_changed events of a timeline, in order
StatusChanges(timeline) ==
  SelectSeq(timeline, LAMBDA event : event.type = "status_changed")

\* C35: the status of every stored incident is the newStatus of the last
\* status_changed event of its timeline, 'open' when there is none; the
\* oldStatus of the first status_changed event is 'open' and that of each
\* later one is the newStatus of the one before it.
C35_StatusFollowsTimeline ==
  \A i \in Slots :
    LET changes == StatusChanges(incidents[i].timeline)
    IN /\ incidents[i].status
            = (IF changes = <<>> THEN "open"
               ELSE changes[Len(changes)].metadata.newStatus)
       /\ \A k \in 1..Len(changes) :
            changes[k].metadata.oldStatus
              = (IF k = 1 THEN "open" ELSE changes[k - 1].metadata.newStatus)

\* an incident that was closed and then reopened
C35_Witness ==
  \E i \in Slots :
    LET changes == StatusChanges(incidents[i].timeline)
    IN /\ Len(changes) = 2
       /\ changes[1].metadata.newStatus = "closed"
       /\ changes[2].metadata = [oldStatus |-> "closed", newStatus |-> "open"]
       /\ incidents[i].status = "open"

\* C39: every stored incident whose resolvedAt is set has createdAt <=
\* resolvedAt <= the timestamp of the last event of its timeline, and the
\* same for closedAt; so resolvedAt - createdAt is never negative.
C39_DatesWithinTimeline ==
  \A i \in Slots :
    LET incident == incidents[i]
    IN /\ incident.resolvedAt # NoDate
            => /\ incident.createdAt <= incident.resolvedAt
               /\ incident.resolvedAt <= LastEvent(incident).timestamp
       /\ incident.closedAt # NoDate
            => /\ incident.createdAt <= incident.closedAt
               /\ incident.closedAt <= LastEvent(incident).timestamp

\* an incident resolved a millisecond after its creation and then closed
C39_Witness ==
  \E i \in Slots :
    /\ incidents[i].resolvedAt > incidents[i].createdAt
    /\ incidents[i].closedAt # NoDate
    /\ incidents[i].closedAt >= incidents[i].resolvedAt
    /\ Len(incidents[i].timeline) = 3

\* C38: in every state the three counts of the active incidents agree: open +
\* investigating of getIncidentMetrics, the length of getOpenIncidents and
\* activeIncidents of generateDailyMetrics; and so does the answer of each of
\* the three calls with the other two computed on the store it left.
C38_ActiveCountsAgree ==
  LET m == getIncidentMetrics(incidents)
      active == Len(getOpenIncidents(incidents))
  IN /\ m.open + m.investigating = active
     /\ generateDailyMetrics(incidents, clock).activeIncidents = active
     /\ last.op = "getIncidentMetrics"
          => last.out[1].open + last.out[1].investigating = active
     /\ last.op = "getOpenIncidents" => Len(last.out[1]) = m.open + m.investigating
     /\ last.op = "generateDailyMetrics"
          => last.out[1].activeIncidents = m.open + m.investigating

\* the daily report answered 2 active incidents over a store of one open
\* and one investigating incident
C38_Witness ==
  /\ last.op = "generateDailyMetrics"
  /\ last.out[1].activeIncidents = 2
  /\ getIncidentMetrics(incidents).open = 1
  /\ getIncidentMetrics(incidents).investigating = 1
  /\ Len(getOpenIncidents(incidents)) = 2

\* The severity the normalization rule gives a token
NormalizedSeverity(token) ==
  IF token \in P0Tokens THEN "P0"
  ELSE IF token \in P1Tokens THEN "P1"
  ELSE IF token \in P2Tokens THEN "P2"
  ELSE "P3"

\* C34: a POST /webhook/alert whose processing does not throw answers
\* success after exactly one createIncident call, whose incident is stored
\* under its id, freshly made: source 'webhook', status 'open', the severity the
\* normalization rule gives alert.severity || alert.priority, metadata the
\* alert itself; the incidents under other ids stay as they were.  When the
\* processing throws, the answer is the 500 failure and the store is as it
\* was.
C34_WebhookCreatesOneIncident ==
  [][last'.op = "postWebhookAlert"
     => LET alert == last'.args[1]
            response == last'.args[2]
        IN IF last'.ok
           THEN /\ response = [status |-> 200, success |-> TRUE]
                /\ MapHas(incidents', last'.id)
                /\ LET incident == MapGet(incidents', last'.id)
                   IN /\ incident.source = "webhook"
                      /\ incident.status = "open"
                      /\ incident.severity
                           = NormalizedSeverity(OrElse(alert.severity,
                                                       alert.priority))
                      /\ incident.metadata = alert
                      /\ Len(incident.timeline) = 1
                /\ Len(createdLog') = Len(createdLog) + 1
                /\ createdLog'[Len(createdLog')].id = last'.id
                /\ \A i \in Slots :
                     incidents[i].id # last'.id
                       => /\ MapHas(incidents', incidents[i].id)
                          /\ MapGet(incidents', incidents[i].id) = incidents[i]
                /\ {incidents'[i].id : i \in 1..Len(incidents')}
                     = StoredIds \cup {last'.id}
           ELSE /\ response = [status |-> 500, success |-> FALSE]
                /\ incidents' = incidents
                /\ createdLog' = createdLog]_vars

\* an alert with severity 'HIGH' was answered with success and stored as a
\* P0 incident next to an earlier one
C34_Witness ==
  /\ last.op = "postWebhookAlert"
  /\ last.ok
  /\ last.args[1].severity = "HIGH"
  /\ last.args[2].status = 200
  /\ Len(incidents) = 2
  /\ MapGet(incidents, last.id).severity = "P0"
  /\ MapGet(incidents, last.id).source = "webhook"

\* How often the incidents-created counter was incremented under a label pair
CreatedCount(m, severity, source) ==
  Cardinality({k \in 1..Len(m.incidentTotal) :
                 m.incidentTotal[k] = <<severity, source>>})

\* C32: once every command and alert has completed, the incidents-created
\* counter summed over its labels equals the number of stored incidents, and
\* the count of each (severity, source) pair equals the number of stored
\* incidents with that severity and source.
C32_CreatedCounterMatchesStore ==
  inFlight = <<>>
    => /\ Len(collector.incidentTotal) = Len(incidents)
       /\ \A severity \in Severities, source \in {"manual", "webhook"} :
            CreatedCount(collector, severity, source)
              = Cardinality({i \in Slots :
                               /\ incidents[i].severity = severity
                               /\ incidents[i].source = source})

\* C31: once every adapter operation has completed on a store that holds an
\* incident, the incidents_by_status and incidents_by_severity gauges hold
\* the current getIncidentMetrics counts and active_incidents holds open +
\* investigating.
C31_GaugesFollowStore ==
  (inFlight = <<>> /\ incidents # <<>>)
    => /\ collector.gauges # <<>>
       /\ LET gauges == collector.gauges[1]
              metrics == getIncidentMetrics(incidents)
          IN /\ \A status \in {"open", "investigating", "resolved", "closed"} :
                  gauges.incidentsByStatus[status] = metrics[status]
             /\ \A severity \in Severities :
                  gauges.incidentsBySeverity[severity]
                    = metrics.bySeverity[severity]
             /\ gauges.activeIncidents.total
                  = metrics.open + metrics.investigating

\* The statuses getOpenIncidents keeps
ActiveStatuses == {"open", "investigating"}

\* The first step of a '/incident resolve' or '/incident assign' command
CommandStarts(op) == started' = started + 1 /\ last'.op = op

\* The stored incidents a command given in a channel may act on
InChannel(channelId) ==
  {i \in Slots : /\ incidents[i].channelId = channelId
                 /\ incidents[i].status \in ActiveStatuses}

\* C36: a '/incident resolve' or '/incident assign' command changes no
\* stored incident but one whose channelId is the command's channel and whose
\* status is 'open' or 'investigating', and changes nothing when there is
\* none; its later steps leave the store alone.  A '/incident resolve'
\* given in a channel while another one given in the same channel is still
\* running finds that one's transition to 'resolved' done and changes nothing.
C36_CommandsActInTheirChannel ==
  [][\A op \in {"slackResolve", "slackAssign"} :
       /\ CommandStarts(op)
            => LET channelId == last'.args[2]
               IN /\ Len(incidents') = Len(incidents)
                  /\ \A i \in Slots :
                       incidents'[i] # incidents[i] => i \in InChannel(channelId)
                  /\ InChannel(channelId) = {} => incidents' = incidents
                  /\ op = "slackResolve"
                       => \A k \in 1..Len(inFlight) :
                            (inFlight[k].kind = "resolve"
                               /\ inFlight[k].channel = channelId)
                              => /\ inFlight[k].success
                                 /\ incidents' = incidents
       /\ (last'.op = op /\ started' = started) => incidents' = incidents]_vars

\* a '/incident resolve' found nothing to act on in a channel where another
\* '/incident resolve', still running, has resolved the channel's incident
C36_Witness ==
  /\ last.op = "slackResolve"
  /\ last.args[1] = "find"
  /\ \E k \in 1..Len(inFlight), i \in Slots :
       /\ inFlight[k].kind = "resolve"
       /\ inFlight[k].channel = last.args[2]
       /\ inFlight[k].success
       /\ incidents[i].channelId = last.args[2]
       /\ incidents[i].status = "resolved"
       /\ Len(StatusChanges(incidents[i].timeline)) = 1

\* The last words that read P0, P1, P2 or P3 once upper-cased
SeverityWords == {"P0", "P1", "P2", "P3", "p0", "p1", "p2", "p3"}

\* C37: a '/incident create' given fewer than two words, or a last word that
\* upper-cased is none of P0, P1, P2, P3, creates no incident: the store,
\* the log of createIncident calls, the handlers in flight and the
\* incidents-created counter are after it as they were before.
C37_MalformedCreateChangesNothing ==
  [][(last'.op = "slackCreate" /\ started' = started + 1)
       => LET args == last'.args[2]
          IN (Len(args) < 2 \/ args[Len(args)] \notin SeverityWords)
               => /\ incidents' = incidents
                  /\ createdLog' = createdLog
                  /\ inFlight' = inFlight
                  /\ collector'.incidentTotal = collector.incidentTotal
                  /\ ~last'.ok]_vars

\* '/incident create DB down p5' was answered and ended next to a stored
\* incident, an earlier well-formed create still in flight
C37_Witness ==
  /\ last.op = "slackCreate"
  /\ last.args = <<"respond", <<"DB", "down", "p5">>>>
  /\ ~last.ok
  /\ Len(incidents) = 1
  /\ Len(inFlight) = 1

====
